---- MODULE Spec2Model ----
(***************************************************************************)
(* Object Explorer provider of the mssql extension                         *)
(* (HadoopObjectExplorerProvider, Session, RootNode): the session registry,*)
(* the deferred callbacks scheduled with setTimeout, the promise           *)
(* continuations and the two event emitters, as one state machine on the   *)
(* single JavaScript event loop.  SqlClusterConnection, which normalizes   *)
(* the connection objects of the host, and the converters of               *)
(* SqlClusterLookUp are modelled beside it, under a specification of their *)
(* own (SpecCluster).                                                      *)
(*                                                                         *)
(* The program's operations are written as state transformers: an operator *)
(* takes the program state st (a record of the variables) and returns the  *)
(* state its code leaves behind, so that a handler which calls other       *)
(* methods is the composition of their transformers.  An action of Next is *)
(* one task of the event loop: a request of the host, a timer callback, a  *)
(* promise continuation.                                                   *)
(***************************************************************************)
EXTENDS Integers, Sequences, FiniteSets, TLC

VARIABLES
    sessionMap,   \* the registry: sequence of [key, sid] in insertion order
    sessions,     \* the Session/RootNode objects ever built, by identity sid
    timers,       \* callbacks scheduled with setTimeout(.., 10), in order
    micro,        \* promise continuations waiting to run (microtask queue)
    inflight,     \* startExpansion activations suspended at an await
    calls,        \* history: every request made, its result and its events
    objects,      \* the connection objects of the host (profiles, connections)
    clusterConns, \* the SqlClusterConnection objects built from them
    lastResult    \* what the last operation on a cluster connection gave

vars == <<sessionMap, sessions, timers, micro, inflight, calls,
          objects, clusterConns, lastResult>>

\* The number of requests the host makes in one run.
MaxCalls == 3

Undefined == "undefined"

objectExplorerPrefix == "objectexplorer://"

defaultKnoxPort == "30443"

(***************************************************************************)
(* Inputs                                                                  *)
(***************************************************************************)
ConnInfo(h, p, u, pw) ==
    [defined |-> TRUE, host |-> h, knoxport |-> p, user |-> u, password |-> pw]

NoConnInfo ==
    [defined |-> FALSE, host |-> Undefined, knoxport |-> Undefined,
     user |-> Undefined, password |-> Undefined]

\* The connections a host passes to createSession: none, one without a host,
\* and complete ones for two clusters (the port field left out).
ConnInfos ==
    { NoConnInfo,
      ConnInfo(Undefined, defaultKnoxPort, "root", "pw"),
      ConnInfo("h1", Undefined, "root", "pw"),
      ConnInfo("h2", Undefined, "root", "pw") }

\* Connection (connectionProvider): the constructor refuses a malformed or
\* incomplete connection; the port defaults when the source has none.
ConnectionValid(connInfo) ==
    /\ connInfo.defined
    /\ connInfo.host # Undefined
    /\ connInfo.user # Undefined
    /\ connInfo.password # Undefined

Connection(connInfo) ==
    [host |-> connInfo.host,
     knoxport |-> IF connInfo.knoxport = Undefined THEN defaultKnoxPort
                  ELSE connInfo.knoxport,
     user |-> connInfo.user,
     pass |-> connInfo.password,
     uri  |-> <<Undefined>>]

\* connection.saveUriWithPrefix(prefix): the uri is the canonical form of the
\* connection behind the prefix.
saveUriWithPrefix(connection, prefix) ==
    [connection EXCEPT
        !.uri = <<prefix, connection.host, connection.knoxport, connection.user>>]

\* The session keys the inputs can produce.
Keys ==
    { saveUriWithPrefix(Connection(ci), objectExplorerPrefix).uri :
        ci \in {c \in ConnInfos : ConnectionValid(c)} }

hdfsFolder == "HDFS"

\* Node paths under the root of the session with key k: the root itself, its
\* HDFS child, and a directory below it, which the cluster may or may not hold.
RootPath(k) == <<k>>
HdfsPath(k) == <<k, hdfsFolder>>
DeepPath(k) == <<k, hdfsFolder, "data">>

NoNodeInfo == [defined |-> FALSE, sessionId |-> <<Undefined>>, nodePath |-> <<>>]

\* The key of the first cluster: paths below the root are asked for under it.
FirstKey == saveUriWithPrefix(Connection(ConnInfo("h1", Undefined, "root", "pw")),
                              objectExplorerPrefix).uri

\* What a host passes to expandNode and refreshNode: nothing, the root path
\* of either key, and the two paths below the root of the first.
ExpandNodeInfos ==
    {NoNodeInfo} \cup
    { [defined |-> TRUE, sessionId |-> k, nodePath |-> RootPath(k)] : k \in Keys } \cup
    { [defined |-> TRUE, sessionId |-> FirstKey, nodePath |-> p] :
        p \in {HdfsPath(FirstKey), DeepPath(FirstKey)} }

\* What a host passes to findNodes: nothing, or the description of a node.
FindNodesInfos ==
    { [defined |-> FALSE, sessionId |-> <<Undefined>>, type |-> Undefined,
       name |-> Undefined],
      [defined |-> TRUE, sessionId |-> FirstKey, type |-> "hdfs:folder",
       name |-> "data"] }

\* The connection profile of a context: the options of a connection.
ConnectionProfile(h, p, u, pw) == ConnInfo(h, p, u, pw)

\* What a host passes to findNodeForContext: the connection node of either
\* cluster, the two nodes below the root of the first, and a node of a
\* cluster no session can exist for.
ExplorerContexts ==
    { [connectionProfile |-> ConnectionProfile("h1", Undefined, "root", "pw"),
       isConnectionNode |-> TRUE, nodeInfo |-> [nodePath |-> RootPath(FirstKey)]],
      [connectionProfile |-> ConnectionProfile("h2", defaultKnoxPort, "root", "other"),
       isConnectionNode |-> TRUE, nodeInfo |-> [nodePath |-> <<>>]],
      [connectionProfile |-> ConnectionProfile("h1", defaultKnoxPort, "root", "pw"),
       isConnectionNode |-> FALSE, nodeInfo |-> [nodePath |-> HdfsPath(FirstKey)]],
      [connectionProfile |-> ConnectionProfile("h1", Undefined, "root", "pw"),
       isConnectionNode |-> FALSE, nodeInfo |-> [nodePath |-> DeepPath(FirstKey)]],
      [connectionProfile |-> ConnectionProfile("h3", Undefined, "root", "pw"),
       isConnectionNode |-> FALSE, nodeInfo |-> [nodePath |-> HdfsPath(FirstKey)]] }

(***************************************************************************)
(* Program state as a value, and the bookkeeping of the history            *)
(***************************************************************************)
State ==
    [sessionMap |-> sessionMap, sessions |-> sessions, timers |-> timers,
     micro |-> micro, inflight |-> inflight, calls |-> calls]

Apply(st) ==
    /\ sessionMap' = st.sessionMap
    /\ sessions' = st.sessions
    /\ timers' = st.timers
    /\ micro' = st.micro
    /\ inflight' = st.inflight
    /\ calls' = st.calls
    /\ UNCHANGED <<objects, clusterConns, lastResult>>

Pending == [state |-> "pending", value |-> Undefined]

\* The host makes a request: it is recorded, its result still pending.  sid
\* is the session an expansion was accepted for; deferred tells whether the
\* deferred step of a createSession has run, and what it found; shown holds
\* the error messages the request showed to the user.
Invoke(st, op, arg) ==
    [st EXCEPT !.calls = Append(@, [op |-> op, arg |-> arg, ret |-> Pending,
                                    sid |-> 0, deferred |-> "waiting",
                                    evs |-> <<>>, shown |-> <<>>])]

\* The promise a request returned is resolved (or rejected) with value.
resolve(st, id, value) ==
    [st EXCEPT !.calls[id].ret = [state |-> "resolved", value |-> value]]

reject(st, id, reason) ==
    [st EXCEPT !.calls[id].ret = [state |-> "rejected", value |-> reason]]

\* setTimeout(callback, 10): every callback waits the same delay, so the
\* callbacks run in the order they were scheduled.
setTimeout(st, task) == [st EXCEPT !.timers = Append(@, task)]

(***************************************************************************)
(* Map<string, Session>                                                    *)
(***************************************************************************)
MapKeys(m) == { m[i].key : i \in 1..Len(m) }

MapHas(m, k) == k \in MapKeys(m)

\* Map.get: the session stored under k, 0 (no object) when there is none.
MapGet(m, k) ==
    IF MapHas(m, k) THEN m[CHOOSE i \in 1..Len(m) : m[i].key = k].sid ELSE 0

\* Map.set: a new key goes to the end, a known key keeps its place.
MapSet(m, k, sid) ==
    IF MapHas(m, k)
    THEN [i \in 1..Len(m) |-> IF m[i].key = k THEN [key |-> k, sid |-> sid] ELSE m[i]]
    ELSE Append(m, [key |-> k, sid |-> sid])

\* Map.delete
MapDelete(m, k) == SelectSeq(m, LAMBDA e : e.key # k)

(***************************************************************************)
(* Session and RootNode                                                    *)
(***************************************************************************)
\* No RootNode: the value of a root field that was never assigned.
NoRoot == [defined |-> FALSE, session |-> 0]

\* new RootNode(session, context): the root keeps the session it is given.
RootNode(sid) == [defined |-> TRUE, session |-> sid]

\* new Session(connection): the root field is not assigned (rootSets counts
\* the assignments it gets).  The children of the root are kept with the
\* session: they start undefined, and built counts the children ever built.
Session(connection) ==
    [connection |-> connection,
     root |-> NoRoot,
     rootSets |-> 0,
     children |-> [cached |-> FALSE, nodes |-> <<>>],
     built |-> 0]

\* session.root = node (the setter of Session)
SetRoot(session, node) == [session EXCEPT !.root = node, !.rootSets = @ + 1]

\* Session.uri
SessionUri(st, sid) == st.sessions[sid].connection.uri

\* RootNode.nodePathValue is the session uri; the path of a node is the
\* sequence of its ancestors' segments.
RootNodePath(st, sid) == <<SessionUri(st, sid)>>

\* getNodeInfo of the root answering as a leaf labelled as the HDFS container.
RootNodeInfo_leaf(st, sid) ==
    [label |-> hdfsFolder,
     isLeaf |-> TRUE,
     errorMessage |-> Undefined,
     nodePath |-> <<SessionUri(st, sid)>>,
     nodeType |-> "hadoop:root",
     iconType |-> "root"]

\* RootNode.getNodeInfo
RootNodeInfo(st, sid) ==
    [label |-> st.sessions[sid].connection.host,
     isLeaf |-> FALSE,
     errorMessage |-> Undefined,
     nodePath |-> RootNodePath(st, sid),
     nodeType |-> "hadoop:root",
     iconType |-> "root"]

\* The node info of the HDFS container that RootNode.getChildren builds.
HdfsNodeInfo(st, sid) ==
    [label |-> hdfsFolder,
     isLeaf |-> FALSE,
     errorMessage |-> Undefined,
     nodePath |-> Append(RootNodePath(st, sid), hdfsFolder),
     nodeType |-> "hdfs:connection",
     iconType |-> "folder"]

\* new ConnectionNode(context, 'HDFS', fileSource) with its parent set to the
\* root of session sid: the HDFS container, a new object (identity id).
ConnectionNode(id, sid) == [id |-> id, label |-> hdfsFolder, parent |-> RootNode(sid)]

\* getChildren building its child on every call, cached or not.
RootGetChildren_alwaysRebuild(st, sid, refreshChildren) ==
    [st EXCEPT !.sessions[sid].built = @ + 1,
               !.sessions[sid].children =
                   [cached |-> TRUE, nodes |-> <<ConnectionNode(st.sessions[sid].built + 1, sid)>>]]

\* getChildren pushing the new child without emptying the children first.
RootGetChildren_noReset(st, sid, refreshChildren) ==
    IF refreshChildren \/ ~st.sessions[sid].children.cached
    THEN [st EXCEPT !.sessions[sid].built = @ + 1,
                    !.sessions[sid].children =
                        [cached |-> TRUE,
                         nodes |-> Append(@.nodes,
                                         ConnectionNode(st.sessions[sid].built + 1, sid))]]
    ELSE st

\* RootNode.getChildren(refreshChildren): the state it leaves; the children
\* are then st.sessions[sid].children.nodes.  A child is a new object (a new
\* identity) each time it is built.
RootGetChildren(st, sid, refreshChildren) ==
    IF refreshChildren \/ ~st.sessions[sid].children.cached
    THEN [st EXCEPT !.sessions[sid].built = @ + 1,
                    !.sessions[sid].children =
                        [cached |-> TRUE, nodes |-> <<ConnectionNode(st.sessions[sid].built + 1, sid)>>]]
    ELSE st

(***************************************************************************)
(* The event emitters                                                      *)
(***************************************************************************)
\* How many closeSession requests for key k have been made so far.
ClosesOf(st, k) ==
    Cardinality({ j \in 1..Len(st.calls) :
                    st.calls[j].op = "closeSession" /\ st.calls[j].arg = k })

\* emitter.fire(info), for the request with index cause.  The event is kept
\* with what was true when it was fired: whether the request had returned,
\* whether the key was in the registry, and how many closeSession requests
\* for the key had been made.
fire(st, cause, type, info) ==
    [st EXCEPT !.calls[cause].evs =
        Append(@, [type |-> type, info |-> info,
                   afterReturn |-> st.calls[cause].ret.state # "pending",
                   registered |-> MapHas(st.sessionMap, info.sessionId),
                   closes |-> ClosesOf(st, info.sessionId)])]

sendSessionCreated(st, cause, sessionInfo) ==
    fire(st, cause, "sessionCreated", sessionInfo)

\* handleSessionFailed without sessionMap.delete.
handleSessionFailed_noDelete(st, cause, sessionInfo) ==
    sendSessionCreated(st, cause, sessionInfo)

\* handleSessionFailed firing the event before sessionMap.delete.
handleSessionFailed_fireFirst(st, cause, sessionInfo) ==
    LET s1 == sendSessionCreated(st, cause, sessionInfo)
    IN [s1 EXCEPT !.sessionMap = MapDelete(@, sessionInfo.sessionId)]

handleSessionFailed(st, cause, sessionInfo) ==
    sendSessionCreated(
        [st EXCEPT !.sessionMap = MapDelete(@, sessionInfo.sessionId)],
        cause, sessionInfo)

\* utils.getErrorMessage(error)
getErrorMessage(error) == error.message

(***************************************************************************)
(* createNewSession                                                        *)
(***************************************************************************)
\* What can happen while doCreateSession runs: it completes, or one of the
\* constructors or getNodeInfo throws, before or after sessionMap.set.
BuildOutcomes == {"ok", "throwBeforeSet", "throwAfterSet"}

BuildError == [message |-> "session construction failed"]

\* doCreateSession announcing a session it did not put in the registry.
doCreateSession_noSet(st, cause, connection, outcome) ==
    LET sid == cause
        s1 == [st EXCEPT !.sessions =
                  (sid :> SetRoot(Session(connection), RootNode(sid))) @@ @]
    IN [s1 EXCEPT !.micro =
          Append(@, [kind |-> "then", call |-> cause,
                     sessionInfo |-> [sessionId |-> SessionUri(s1, sid),
                                      success |-> TRUE,
                                      rootNode |-> RootNodeInfo(s1, sid),
                                      errorMessage |-> Undefined]])]

\* doCreateSession registering the session without assigning its root.
doCreateSession_noRoot(st, cause, connection, outcome) ==
    LET sid == cause
        s1 == [st EXCEPT !.sessions = (sid :> Session(connection)) @@ @,
                         !.sessionMap = MapSet(@, connection.uri, sid)]
    IN [s1 EXCEPT !.micro = Append(@, [kind |-> "catch", call |-> cause,
                                       connection |-> connection,
                                       error |-> BuildError])]

\* doCreateSession(connection): an async function without await, so its body
\* runs at once and its result is a settled promise; the .then/.catch handlers
\* of the caller are queued as promise continuations.
doCreateSession(st, cause, connection, outcome) ==
    IF outcome = "throwBeforeSet"
    THEN [st EXCEPT !.micro = Append(@, [kind |-> "catch", call |-> cause,
                                         connection |-> connection,
                                         error |-> BuildError])]
    ELSE
      LET sid == cause
          s1 == [st EXCEPT !.sessions = (sid :> SetRoot(Session(connection), RootNode(sid))) @@ @,
                           !.sessionMap = MapSet(@, connection.uri, sid)]
          sessionInfo == [sessionId |-> SessionUri(s1, sid),
                          success |-> TRUE,
                          rootNode |-> RootNodeInfo(s1, sid),
                          errorMessage |-> Undefined]
      IN IF outcome = "throwAfterSet"
         THEN [s1 EXCEPT !.micro = Append(@, [kind |-> "catch", call |-> cause,
                                              connection |-> connection,
                                              error |-> BuildError])]
         ELSE [s1 EXCEPT !.micro = Append(@, [kind |-> "then", call |-> cause,
                                              sessionInfo |-> sessionInfo])]

\* The callback without its sessionMap.has guard.
createSessionCallback_noGuard(st, cause, connection, outcome) ==
    doCreateSession(st, cause, connection, outcome)

\* The callback createNewSession hands to setTimeout.
createSessionCallback(st, cause, connection, outcome) ==
    IF ~MapHas(st.sessionMap, connection.uri)
    THEN doCreateSession(st, cause, connection, outcome)
    ELSE st

\* The handlers with a .catch that only cleans up.
sessionContinuation_silentCatch(st, task) ==
    IF task.kind = "then"
    THEN sendSessionCreated(st, task.call, task.sessionInfo)
    ELSE [st EXCEPT !.sessionMap = MapDelete(@, task.connection.uri)]

\* The .then and .catch handlers of the callback.
sessionContinuation(st, task) ==
    IF task.kind = "then"
    THEN sendSessionCreated(st, task.call, task.sessionInfo)
    ELSE handleSessionFailed(st, task.call,
            [sessionId |-> task.connection.uri,
             success |-> FALSE,
             errorMessage |-> getErrorMessage(task.error),
             rootNode |-> Undefined])

\* createNewSession with the callback run at once instead of handed to
\* setTimeout.
createNewSession_sync(st, id, connInfo) ==
    IF ~ConnectionValid(connInfo)
    THEN reject(st, id, "invalid connection")
    ELSE LET connection == saveUriWithPrefix(Connection(connInfo), objectExplorerPrefix)
             response == [sessionId |-> connection.uri]
         IN resolve(createSessionCallback(st, id, connection, "ok"), id, response)

\* createNewSession with setTimeout moved in front of the try block.
createNewSession_timerFirst(st, id, connInfo) ==
    LET connection == saveUriWithPrefix(Connection(connInfo), objectExplorerPrefix)
        response == [sessionId |-> connection.uri]
        s1 == setTimeout(st, [kind |-> "createSession", call |-> id,
                              connection |-> connection])
    IN IF ~ConnectionValid(connInfo)
       THEN reject(s1, id, "invalid connection")
       ELSE resolve(s1, id, response)

\* createNewSession building and registering the session in the call itself.
createNewSession_registers(st, id, connInfo) ==
    IF ~ConnectionValid(connInfo)
    THEN reject(st, id, "invalid connection")
    ELSE LET connection == saveUriWithPrefix(Connection(connInfo), objectExplorerPrefix)
             response == [sessionId |-> connection.uri]
             s1 == [st EXCEPT !.sessions = (id :> SetRoot(Session(connection), RootNode(id))) @@ @,
                              !.sessionMap = MapSet(@, connection.uri, id)]
         IN resolve(setTimeout(s1, [kind |-> "createSession", call |-> id,
                                    connection |-> connection]),
                    id, response)

\* createNewSession(connInfo), for the request with index id.
createNewSession(st, id, connInfo) ==
    IF ~ConnectionValid(connInfo)
    THEN reject(st, id, "invalid connection")
    ELSE LET connection == saveUriWithPrefix(Connection(connInfo), objectExplorerPrefix)
             response == [sessionId |-> connection.uri]
         IN resolve(setTimeout(st, [kind |-> "createSession", call |-> id,
                                    connection |-> connection]),
                    id, response)

(***************************************************************************)
(* closeSession, findNodes                                                 *)
(***************************************************************************)
\* closeSession that also drops the expansions scheduled for the session.
closeSession_cancel(st, id, sessionId) ==
    LET deleted == MapHas(st.sessionMap, sessionId)
        response == [success |-> deleted, sessionId |-> sessionId]
    IN resolve([st EXCEPT !.sessionMap = MapDelete(@, sessionId),
                          !.timers = SelectSeq(@, LAMBDA t :
                                        ~(t.kind = "startExpansion"
                                          /\ SessionUri(st, t.session) = sessionId)),
                          !.inflight = SelectSeq(@, LAMBDA x :
                                        SessionUri(st, x.session) # sessionId)],
               id, response)

\* closeSession that also drops the constructions scheduled for the key.
closeSession_cancelsCreate(st, id, sessionId) ==
    LET deleted == MapHas(st.sessionMap, sessionId)
        response == [success |-> deleted, sessionId |-> sessionId]
    IN resolve([st EXCEPT !.sessionMap = MapDelete(@, sessionId),
                          !.timers = SelectSeq(@, LAMBDA t :
                                        ~(t.kind = "createSession"
                                          /\ t.connection.uri = sessionId))],
               id, response)

\* closeSession reporting success whatever Map.delete returned.
closeSession_alwaysTrue(st, id, sessionId) ==
    resolve([st EXCEPT !.sessionMap = MapDelete(@, sessionId)], id,
            [success |-> TRUE, sessionId |-> sessionId])

closeSession(st, id, sessionId) ==
    LET deleted == MapHas(st.sessionMap, sessionId)
        response == [success |-> deleted, sessionId |-> sessionId]
    IN resolve([st EXCEPT !.sessionMap = MapDelete(@, sessionId)], id, response)

\* findNodes answering with the roots of the registered sessions.
findNodes_listsRoots(st, id) ==
    resolve(st, id, [nodes |-> [i \in 1..Len(st.sessionMap) |->
                                   RootNodeInfo(st, st.sessionMap[i].sid)]])

\* findNodes(findNodesInfo): the argument is not read.
findNodes(st, id) == resolve(st, id, [nodes |-> <<>>])

(***************************************************************************)
(* expandNode, refreshNode                                                 *)
(***************************************************************************)
IsPrefix(p, q) == Len(p) <= Len(q) /\ SubSeq(q, 1, Len(p)) = p

IoError == [message |-> "HDFS request failed"]

\* The node info of a directory the HDFS container lists.
DataNodeInfo(st, sid) ==
    [label |-> "data",
     isLeaf |-> FALSE,
     errorMessage |-> Undefined,
     nodePath |-> Append(Append(RootNodePath(st, sid), hdfsFolder), "data"),
     nodeType |-> "hdfs:folder",
     iconType |-> "folder"]

\* this.expandCompleteEmitter.fire(expandResult) at the end of startExpansion.
finishExpansion(st, x, expandResult) ==
    fire(st, x.call, "expandCompleted", expandResult)

\* startExpansion firing its event before the children have arrived.
fetchChildren_early(st, x, node) ==
    LET er == [x.expandResult EXCEPT !.errorMessage = Undefined]
    IN IF node.kind = "root"
       THEN LET s1 == RootGetChildren(st, x.session, TRUE)
                children == s1.sessions[x.session].children.nodes
            IN finishExpansion(s1, x,
                 [er EXCEPT !.nodes = [i \in 1..Len(children) |->
                                          HdfsNodeInfo(s1, x.session)]])
       ELSE finishExpansion(
              [st EXCEPT !.inflight =
                  Append(@, [x EXCEPT !.awaiting = "getChildren",
                                      !.node = node, !.expandResult = er])],
              x, er)

\* startExpansion from the node on: node.getNodeInfo().errorMessage, then
\* await node.getChildren(true).  The root builds its child at once; a node
\* of the HDFS tree asks the cluster, and the activation is suspended.
fetchChildren(st, x, node) ==
    LET er == [x.expandResult EXCEPT !.errorMessage = Undefined]
    IN IF node.kind = "root"
       THEN LET s1 == RootGetChildren(st, x.session, TRUE)
                children == s1.sessions[x.session].children.nodes
            IN finishExpansion(s1, x,
                 [er EXCEPT !.nodes = [i \in 1..Len(children) |->
                                          HdfsNodeInfo(s1, x.session)]])
       ELSE [st EXCEPT !.inflight =
                Append(@, [x EXCEPT !.awaiting = "getChildren",
                                    !.node = node, !.expandResult = er])]

nodeNotFound == "Cannot expand object explorer node. Couldn't find node for path"

\* TreeNode.findNodeByPath(path, forceRefresh) on the root of a session, up to
\* its first request to the cluster: descend from the root by matching path
\* segments, expanding (getChildren(forceRefresh)) each node passed through.
\* The result is a node ("node"), no node ("none"), or a suspension on the
\* listing of the HDFS container ("io", node being the container).
findNodeByPath(st, session, path, forceRefresh) ==
    LET rootPath == RootNodePath(st, session)
        hdfsPath == Append(rootPath, hdfsFolder)
        root == [kind |-> "root", id |-> 0]
    IN IF path = rootPath
       THEN [st |-> st, status |-> "node", node |-> root]
       ELSE IF ~IsPrefix(rootPath, path)
       THEN [st |-> st, status |-> "none", node |-> root]
       ELSE LET s1 == RootGetChildren(st, session, forceRefresh)
                child == [kind |-> "hdfs",
                          id |-> s1.sessions[session].children.nodes[1].id]
            IN IF path = hdfsPath
               THEN [st |-> s1, status |-> "node", node |-> child]
               ELSE IF IsPrefix(hdfsPath, path)
               THEN [st |-> s1, status |-> "io", node |-> child]
               ELSE [st |-> s1, status |-> "none", node |-> root]

\* startExpansion passing isRefresh to findNodeByPath and to getChildren, so
\* that an expansion that is no refresh is served from the cache.
startExpansion_usesFlag(st, cause, session, nodeInfo, isRefresh) ==
    LET x == [call |-> cause, session |-> session, nodeInfo |-> nodeInfo,
              isRefresh |-> isRefresh, awaiting |-> "findNodeByPath",
              node |-> [kind |-> "root", id |-> 0],
              expandResult |-> [sessionId |-> SessionUri(st, session),
                                nodePath |-> nodeInfo.nodePath,
                                errorMessage |-> Undefined,
                                nodes |-> <<>>]]
        r == findNodeByPath(st, session, nodeInfo.nodePath, isRefresh)
    IN IF r.status = "io"
       THEN [r.st EXCEPT !.inflight = Append(@, [x EXCEPT !.node = r.node])]
       ELSE IF r.status = "none"
       THEN finishExpansion(r.st, x,
                [x.expandResult EXCEPT !.errorMessage = nodeNotFound])
       ELSE IF r.node.kind = "root"
       THEN LET s1 == RootGetChildren(r.st, session, isRefresh)
            IN finishExpansion(s1, x,
                 [x.expandResult EXCEPT
                    !.nodes = [i \in 1..Len(s1.sessions[session].children.nodes) |->
                                  HdfsNodeInfo(s1, session)]])
       ELSE fetchChildren(r.st, x, r.node)

\* startExpansion(session, nodeInfo, isRefresh) up to its first suspension.
startExpansion(st, cause, session, nodeInfo, isRefresh) ==
    LET x == [call |-> cause, session |-> session, nodeInfo |-> nodeInfo,
              isRefresh |-> isRefresh, awaiting |-> "findNodeByPath",
              node |-> [kind |-> "root", id |-> 0],
              expandResult |-> [sessionId |-> SessionUri(st, session),
                                nodePath |-> nodeInfo.nodePath,
                                errorMessage |-> Undefined,
                                nodes |-> <<>>]]
        r == findNodeByPath(st, session, nodeInfo.nodePath, TRUE)
    IN IF r.status = "io"
       THEN [r.st EXCEPT !.inflight = Append(@, [x EXCEPT !.node = r.node])]
       ELSE IF r.status = "none"
       THEN finishExpansion(r.st, x,
                [x.expandResult EXCEPT !.errorMessage = nodeNotFound])
       ELSE fetchChildren(r.st, x, r.node)

\* What the cluster can answer to a suspended activation.
IoOutcomes(x) ==
    IF x.awaiting = "getChildren" THEN {"ok", "error"}
    ELSE {"found", "notFound", "error"}

RemoveAt(seq, i) == SubSeq(seq, 1, i - 1) \o SubSeq(seq, i + 1, Len(seq))

\* startExpansion without its try/catch: an error of the cluster ends the
\* activation and nothing is emitted.
resumeExpansion_noCatch(st, i, outcome) ==
    LET x == st.inflight[i]
        s0 == [st EXCEPT !.inflight = RemoveAt(@, i)]
    IN IF outcome = "error"
       THEN s0
       ELSE IF x.awaiting = "findNodeByPath"
       THEN IF outcome = "found"
            THEN fetchChildren(s0, x, [kind |-> "folder", id |-> 0])
            ELSE finishExpansion(s0, x,
                    [x.expandResult EXCEPT !.errorMessage = nodeNotFound])
       ELSE finishExpansion(s0, x,
                [x.expandResult EXCEPT !.nodes = <<DataNodeInfo(s0, x.session)>>])

\* startExpansion resumed after an await on the cluster.
resumeExpansion(st, i, outcome) ==
    LET x == st.inflight[i]
        s0 == [st EXCEPT !.inflight = RemoveAt(@, i)]
    IN IF outcome = "error"
       THEN finishExpansion(s0, x,
                [x.expandResult EXCEPT !.errorMessage = getErrorMessage(IoError)])
       ELSE IF x.awaiting = "findNodeByPath"
       THEN IF outcome = "found"
            THEN fetchChildren(s0, x, [kind |-> "folder", id |-> 0])
            ELSE finishExpansion(s0, x,
                    [x.expandResult EXCEPT !.errorMessage = nodeNotFound])
       ELSE finishExpansion(s0, x,
                [x.expandResult EXCEPT !.nodes = <<DataNodeInfo(s0, x.session)>>])

sessionIdNotFound ==
    "Cannot expand object explorer node. Couldn't find session for uri"

\* The callback dropping the key it did not find from the registry.
sessionIdNotFoundCallback_cleans(st, task) ==
    fire([st EXCEPT !.sessionMap = MapDelete(@, task.nodeInfo.sessionId)],
         task.call, "expandCompleted",
         [sessionId |-> task.nodeInfo.sessionId,
          nodePath |-> task.nodeInfo.nodePath,
          errorMessage |-> sessionIdNotFound,
          nodes |-> Undefined])

\* The callback doExpandNode schedules when it finds no session.
sessionIdNotFoundCallback(st, task) ==
    fire(st, task.call, "expandCompleted",
         [sessionId |-> task.nodeInfo.sessionId,
          nodePath |-> task.nodeInfo.nodePath,
          errorMessage |-> sessionIdNotFound,
          nodes |-> Undefined])

\* doExpandNode with the error event fired at once instead of from a timer.
doExpandNode_sync(st, id, nodeInfo, isRefresh) ==
    LET session == MapGet(st.sessionMap, nodeInfo.sessionId)
    IN IF session = 0
       THEN [st |-> sessionIdNotFoundCallback(st, [kind |-> "sessionIdNotFound",
                                                   call |-> id, nodeInfo |-> nodeInfo]),
             value |-> FALSE]
       ELSE [st |-> setTimeout([st EXCEPT !.calls[id].sid = session],
                               [kind |-> "startExpansion", call |-> id,
                                session |-> session, nodeInfo |-> nodeInfo,
                                isRefresh |-> isRefresh]),
             value |-> TRUE]

\* doExpandNode(nodeInfo, isRefresh): the state it leaves and what it returns.
doExpandNode(st, id, nodeInfo, isRefresh) ==
    LET session == MapGet(st.sessionMap, nodeInfo.sessionId)
    IN IF session = 0
       THEN [st |-> setTimeout(st, [kind |-> "sessionIdNotFound", call |-> id,
                                    nodeInfo |-> nodeInfo]),
             value |-> FALSE]
       ELSE [st |-> setTimeout([st EXCEPT !.calls[id].sid = session],
                               [kind |-> "startExpansion", call |-> id,
                                session |-> session, nodeInfo |-> nodeInfo,
                                isRefresh |-> isRefresh]),
             value |-> TRUE]

expandNodeRequiresNodeInfo == "expandNode requires a nodeInfo object to be passed"

\* expandNode answering false for a missing nodeInfo instead of rejecting.
expandNode_resolvesFalse(st, id, nodeInfo, isRefresh) ==
    IF ~nodeInfo.defined
    THEN resolve(st, id, FALSE)
    ELSE LET r == doExpandNode(st, id, nodeInfo, isRefresh)
         IN resolve(r.st, id, r.value)

\* expandNode(nodeInfo, isRefresh)
expandNode(st, id, nodeInfo, isRefresh) ==
    IF ~nodeInfo.defined
    THEN reject(st, id, expandNodeRequiresNodeInfo)
    ELSE LET r == doExpandNode(st, id, nodeInfo, isRefresh)
         IN resolve(r.st, id, r.value)

\* refreshNode answering false for a missing nodeInfo.
refreshNode_resolvesFalse(st, id, nodeInfo) ==
    expandNode_resolvesFalse(st, id, nodeInfo, TRUE)

\* refreshNode(nodeInfo)
refreshNode(st, id, nodeInfo) == expandNode(st, id, nodeInfo, TRUE)

(***************************************************************************)
(* notifyNodeChanged                                                       *)
(***************************************************************************)
\* A tree node: its class and the session of the root its parent chain leads
\* to, 0 when the chain leads to no RootNode.
TreeNode(kind, session) == [defined |-> TRUE, kind |-> kind, session |-> session]

NoNode == [defined |-> FALSE, kind |-> Undefined, session |-> 0]

\* node.parent: a folder hangs under an HDFS container, a container under
\* the root that built it, if any.
Parent(node) ==
    IF node.kind = "folder" THEN TreeNode("hdfs", node.session)
    ELSE IF node.kind = "hdfs" /\ node.session # 0 THEN TreeNode("root", node.session)
    ELSE NoNode

\* TreeNode.generateNodePath: the segments of the ancestors, then the node's.
RECURSIVE generateNodePath(_, _)
generateNodePath(st, node) ==
    IF ~node.defined THEN <<>>
    ELSE IF node.kind = "root" THEN RootNodePath(st, node.session)
    ELSE Append(generateNodePath(st, Parent(node)),
                IF node.kind = "hdfs" THEN hdfsFolder ELSE "data")

\* getSessionForNode(node): the session of the first RootNode on the parent
\* chain, 0 (undefined) when the chain ends without one.
RECURSIVE getSessionForNode(_)
getSessionForNode(node) ==
    IF ~node.defined THEN 0
    ELSE IF node.kind = "root" THEN node.session
    ELSE getSessionForNode(Parent(node))

sessionNotFound == "Session for node does not exist"

\* this.appContext.apiWrapper.showErrorMessage(message)
showErrorMessage(st, id, message) == [st EXCEPT !.calls[id].shown = Append(@, message)]

\* notifyNodeChangesAsync without its try/catch.
notifyNodeChangesAsync_noCatch(st, id, node) ==
    LET session == getSessionForNode(node)
    IN IF session = 0
       THEN IF ~node.defined
            THEN reject(st, id, "TypeError")
            ELSE resolve(showErrorMessage(st, id,
                            <<sessionNotFound, generateNodePath(st, node)>>),
                         id, Undefined)
       ELSE LET expandInfo == [defined |-> TRUE,
                               sessionId |-> SessionUri(st, session),
                               nodePath |-> generateNodePath(st, node)]
            IN resolve(refreshNode(st, id, expandInfo), id, Undefined)

\* notifyNodeChangesAsync showing the error when the session of the node is
\* not the one the registry holds.
notifyNodeChangesAsync_checksRegistry(st, id, node) ==
    LET session == getSessionForNode(node)
    IN IF session = 0
       THEN resolve(st, id, Undefined)
       ELSE IF MapGet(st.sessionMap, SessionUri(st, session)) # session
       THEN resolve(showErrorMessage(st, id,
                        <<sessionNotFound, generateNodePath(st, node)>>),
                    id, Undefined)
       ELSE resolve(refreshNode(st, id,
                        [defined |-> TRUE,
                         sessionId |-> SessionUri(st, session),
                         nodePath |-> generateNodePath(st, node)]),
                    id, Undefined)

\* notifyNodeChangesAsync(node): the promise of request id is the one this
\* async function returns.  Without a node, reading node.nodePathValue for
\* the message throws, and the catch swallows it.  refreshNode has done its
\* work when it returns, so the await only ends the function.
notifyNodeChangesAsync(st, id, node) ==
    LET session == getSessionForNode(node)
    IN IF session = 0
       THEN IF ~node.defined
            THEN resolve(st, id, Undefined)
            ELSE resolve(showErrorMessage(st, id,
                            <<sessionNotFound, generateNodePath(st, node)>>),
                         id, Undefined)
       ELSE LET expandInfo == [defined |-> TRUE,
                               sessionId |-> SessionUri(st, session),
                               nodePath |-> generateNodePath(st, node)]
            IN resolve(refreshNode(st, id, expandInfo), id, Undefined)

\* notifyNodeChanged(node)
notifyNodeChanged(st, id, node) == notifyNodeChangesAsync(st, id, node)

(***************************************************************************)
(* findNodeForContext                                                      *)
(***************************************************************************)
\* Connection.isMatch(connectionInfo) (connectionProvider): same host, port
\* (defaulted) and user; the password is not compared.
isMatch(connection, connectionInfo) ==
    /\ connectionInfo.defined
    /\ connection.host = connectionInfo.host
    /\ connection.knoxport = Connection(connectionInfo).knoxport
    /\ connection.user = connectionInfo.user

\* findSessionForConnection returning the first session of the registry.
findSessionForConnection_firstSession(st, connectionProfile) ==
    IF st.sessionMap = <<>> THEN 0 ELSE st.sessionMap[1].sid

\* findSessionForConnection(connectionProfile): the loop over
\* sessionMap.values() returns at the first session that matches; 0
\* (undefined) when the loop ends.
findSessionForConnection(st, connectionProfile) ==
    LET matching == { i \in 1..Len(st.sessionMap) :
                        isMatch(st.sessions[st.sessionMap[i].sid].connection,
                                connectionProfile) }
    IN IF matching = {} THEN 0
       ELSE st.sessionMap[CHOOSE i \in matching : \A j \in matching : i <= j].sid

\* findNodeForContext(explorerContext), up to its first suspension: the
\* promise of request id is resolved with the node, NoNode standing for
\* undefined.
findNodeForContext(st, id, explorerContext) ==
    LET session == findSessionForConnection(st, explorerContext.connectionProfile)
    IN IF session = 0
       THEN resolve(st, id, NoNode)
       ELSE IF explorerContext.isConnectionNode
       THEN resolve(st, id, TreeNode("root", session))
       ELSE LET r == findNodeByPath(st, session,
                                    explorerContext.nodeInfo.nodePath, TRUE)
            IN IF r.status = "io"
               THEN [r.st EXCEPT !.inflight =
                        Append(@, [call |-> id, session |-> session,
                                   nodeInfo |-> explorerContext.nodeInfo,
                                   awaiting |-> "findNodeForContext",
                                   node |-> r.node])]
               ELSE IF r.status = "none"
               THEN resolve(r.st, id, NoNode)
               ELSE resolve(r.st, id, TreeNode(r.node.kind, session))

\* findNodeForContext resumed after the await on findNodeByPath; an error of
\* the lookup rejects the promise.
resumeFindNode(st, i, outcome) ==
    LET x == st.inflight[i]
        s0 == [st EXCEPT !.inflight = RemoveAt(@, i)]
    IN IF outcome = "error" THEN reject(s0, x.call, getErrorMessage(IoError))
       ELSE IF outcome = "found"
       THEN resolve(s0, x.call, TreeNode("folder", x.session))
       ELSE resolve(s0, x.call, NoNode)

(***************************************************************************)
(* SqlClusterConnection and the converters of SqlClusterLookUp             *)
(***************************************************************************)
\* The two connection objects the host holds: the one the connection that
\* isMatch is called on is built from, and the one its argument is built from.
Operands == {"this", "obj"}

\* No SqlClusterConnection has been built from an operand.
NotBuilt == [built |-> FALSE]

hostPropName == "host"
userPropName == "user"
knoxPortPropName == "knoxport"
passwordPropName == "password"

\* A JavaScript object is the function from its property names to their
\* values; undefined stands for no object at all.
NoFields == [e \in {} |-> Undefined]

Object(fields) == [defined |-> TRUE, fields |-> fields]

NoObject == [defined |-> FALSE, fields |-> NoFields]

\* obj[e]: undefined for a property the object does not have.
Get(fields, e) == IF e \in DOMAIN fields THEN fields[e] ELSE Undefined

Without(fields, e) == [x \in DOMAIN fields \ {e} |-> fields[x]]

\* Object.assign(target, source): the properties of target after the call.
ObjectAssign(target, source) ==
    [x \in DOMAIN target \cup DOMAIN source |->
        IF x \in DOMAIN source THEN source[x] ELSE target[x]]

BaseOptions == [host |-> "h1", knoxport |-> "30443", user |-> "root", password |-> "pw"]

\* The options of the host's objects: complete ones, those with one
\* property changed (the port also to the empty string), and those with one
\* property missing.
OptionSets ==
    { BaseOptions,
      [BaseOptions EXCEPT !.host = "h2"],
      [BaseOptions EXCEPT !.knoxport = ""],
      [BaseOptions EXCEPT !.knoxport = "8443"],
      [BaseOptions EXCEPT !.user = "admin"],
      [BaseOptions EXCEPT !.password = "pw2"] } \cup
    { Without(BaseOptions, e) :
        e \in {hostPropName, knoxPortPropName, userPropName, passwordPropName} }

\* The objects a host can hold: none, a profile (it has an id) or a
\* connection (it has a connectionId), with or without options.
HostObjects ==
    { NoObject, Object([id |-> "id1"]), Object([connectionId |-> "id1"]) } \cup
    { Object([id |-> "id1", options |-> o]) : o \in OptionSets } \cup
    { Object([connectionId |-> "id1", options |-> o]) : o \in OptionSets }

\* isValid not asking for the port.
SqlClusterConnection_isValid_noPort(connectionInfo) ==
    /\ connectionInfo.defined
    /\ "options" \in DOMAIN connectionInfo.fields
    /\ \A e \in {hostPropName, userPropName, passwordPropName} :
          Get(connectionInfo.fields.options, e) # Undefined

\* SqlClusterConnection.isValid(connectionInfo)
SqlClusterConnection_isValid(connectionInfo) ==
    /\ connectionInfo.defined
    /\ "options" \in DOMAIN connectionInfo.fields
    /\ \A e \in {hostPropName, knoxPortPropName, userPropName, passwordPropName} :
          Get(connectionInfo.fields.options, e) # Undefined

invalidConnectionInfo == "Invalid ConnectionInfo is provided."

\* serverName: `${options[host]},${options[knoxport]}`
ServerName(options) ==
    <<Get(options, hostPropName), ",", Get(options, knoxPortPropName)>>

\* new SqlClusterConnection(connectionInfo), for the object i of the heap:
\* whether it threw, the heap it leaves and the object it built.
\* _sqlClusterConnInfo is a reference to the object passed (its name);
\* _sqlClusterConnProfile is that same object for a profile, and an object of
\* its own for a connection.
SqlClusterConnection(heap, i) ==
    LET connectionInfo == heap[i]
    IN IF ~SqlClusterConnection_isValid(connectionInfo)
       THEN [threw |-> TRUE, error |-> invalidConnectionInfo, heap |-> heap]
       ELSE
         LET isProfile == "id" \in DOMAIN connectionInfo.fields
             heap1 == IF isProfile
                      THEN [heap EXCEPT ![i].fields =
                               ObjectAssign(@, [connectionId |-> @.id])]
                      ELSE heap
             options == heap1[i].fields.options
             profile == IF isProfile THEN NoFields
                        ELSE ObjectAssign(connectionInfo.fields,
                               [serverName |-> ServerName(options),
                                userName |-> Get(options, userPropName),
                                password |-> Get(options, passwordPropName),
                                id |-> Get(connectionInfo.fields, "connectionId")])
         IN [threw |-> FALSE, error |-> Undefined, heap |-> heap1,
             this |-> [built |-> TRUE,
                       sqlClusterConnInfo |-> i,
                       profileIsInput |-> isProfile,
                       ownProfile |-> profile,
                       host_ |-> Get(options, hostPropName),
                       port_ |-> Get(options, knoxPortPropName),
                       user_ |-> Get(options, userPropName),
                       pass_ |-> Get(options, passwordPropName)]]

\* The getters host, port, user and pass; port: this._port || defaultKnoxPort.
SqlClusterConnection_host(this) == this.host_

SqlClusterConnection_port(this) ==
    IF this.port_ \in {Undefined, ""} THEN defaultKnoxPort ELSE this.port_

SqlClusterConnection_user(this) == this.user_

SqlClusterConnection_pass(this) == this.pass_

\* this.isMatch(obj), obj being another SqlClusterConnection or nothing
\* (defined = FALSE): the options of the two _sqlClusterConnInfo are compared.
SqlClusterConnection_isMatch(heap, this, defined, obj) ==
    IF ~defined THEN FALSE
    ELSE LET options1 == heap[obj.sqlClusterConnInfo].fields.options
             options2 == heap[this.sqlClusterConnInfo].fields.options
         IN \A e \in {hostPropName, knoxPortPropName, userPropName} :
                Get(options1, e) = Get(options2, e)

\* SqlClusterLookUp.connProfileToConnectionParam(connectionProfile): the
\* properties of the object it returns, which is the object passed.
connProfileToConnectionParam(fields) ==
    ObjectAssign(fields, [connectionId |-> fields.id])

\* SqlClusterLookUp.connToConnectionParam(connection)
connToConnectionParam(fields) ==
    LET options == fields.options
    IN ObjectAssign(fields,
          [serverName |-> ServerName(options),
           userName |-> Get(options, userPropName),
           password |-> Get(options, passwordPropName),
           id |-> Get(fields, "connectionId")])

\* lookUpSqlClusterInfo(obj) for an object of the cluster provider: whether
\* it threw, the heap it leaves and the object it returns (by name,
\* undefined for none).  A connection without options makes connToConnectionParam
\* throw on options[..].
lookUpSqlClusterInfo(heap, i) ==
    LET obj == heap[i]
    IN IF ~obj.defined
       THEN [threw |-> FALSE, heap |-> heap, value |-> Undefined]
       ELSE IF "id" \in DOMAIN obj.fields
       THEN [threw |-> FALSE,
             heap |-> [heap EXCEPT ![i].fields = connProfileToConnectionParam(@)],
             value |-> i]
       ELSE IF "options" \notin DOMAIN obj.fields
       THEN [threw |-> TRUE, heap |-> heap, value |-> Undefined]
       ELSE [threw |-> FALSE,
             heap |-> [heap EXCEPT ![i].fields = connToConnectionParam(@)],
             value |-> i]

(***************************************************************************)
(* The event loop                                                          *)
(***************************************************************************)
\* After the provider's constructor: this.sessionMap = new Map().
Init ==
    /\ sessionMap = <<>>
    /\ sessions = <<>>
    /\ timers = <<>>
    /\ micro = <<>>
    /\ inflight = <<>>
    /\ calls = <<>>
    /\ objects = [i \in Operands |-> NoObject]
    /\ clusterConns = [i \in Operands |-> NotBuilt]
    /\ lastResult = [op |-> "none"]

\* A request of the host is a task of its own: it starts when no promise
\* continuation is waiting.
CanCall == micro = <<>> /\ Len(calls) < MaxCalls

NextId == Len(calls) + 1

CreateSession ==
    /\ CanCall
    /\ \E connInfo \in ConnInfos :
         Apply(createNewSession(Invoke(State, "createSession", connInfo),
                                NextId, connInfo))

ExpandNode ==
    /\ CanCall
    /\ \E nodeInfo \in ExpandNodeInfos :
         Apply(expandNode(Invoke(State, "expandNode", nodeInfo),
                          NextId, nodeInfo, FALSE))

RefreshNode ==
    /\ CanCall
    /\ \E nodeInfo \in ExpandNodeInfos :
         Apply(refreshNode(Invoke(State, "refreshNode", nodeInfo),
                           NextId, nodeInfo))

CloseSession ==
    /\ CanCall
    /\ \E sessionId \in Keys :
         Apply(closeSession(Invoke(State, "closeSession", sessionId),
                            NextId, sessionId))

FindNodes ==
    /\ CanCall
    /\ \E findNodesInfo \in FindNodesInfos :
         Apply(findNodes(Invoke(State, "findNodes", findNodesInfo), NextId))

\* The sessions whose root the host has been given: those announced by a
\* success event.  The session built by request c has identity c.
AnnouncedSessions ==
    { s \in DOMAIN sessions :
        calls[s].evs # <<>> /\ calls[s].evs[1].info.success }

\* The nodes a tree can report as changed: none, a folder of a tree that
\* hangs under no root, and the root and the HDFS container (once built) of
\* an announced session.
ChangedNodes ==
    {NoNode, TreeNode("folder", 0)} \cup
    { TreeNode("root", s) : s \in AnnouncedSessions } \cup
    { TreeNode("hdfs", s) : s \in {x \in AnnouncedSessions : sessions[x].built > 0} }

NotifyNodeChanged ==
    /\ CanCall
    /\ \E node \in ChangedNodes :
         Apply(notifyNodeChanged(Invoke(State, "notifyNodeChanged", node),
                                 NextId, node))

FindNodeForContext ==
    /\ CanCall
    /\ \E explorerContext \in ExplorerContexts :
         Apply(findNodeForContext(
                 Invoke(State, "findNodeForContext", explorerContext),
                 NextId, explorerContext))

\* The oldest timer is due: its callback runs.
TimerDue(kind) == micro = <<>> /\ timers # <<>> /\ Head(timers).kind = kind

PopTimer == [State EXCEPT !.timers = Tail(@)]

\* History: what the registry held for the key when the deferred step of
\* request id started.
Observed(st, id, k) ==
    [st EXCEPT !.calls[id].deferred =
        IF MapHas(st.sessionMap, k) THEN "keyPresent" ELSE "keyAbsent"]

CreateSessionTimer ==
    /\ TimerDue("createSession")
    /\ LET task == Head(timers)
       IN \E outcome \in BuildOutcomes :
            Apply(createSessionCallback(
                    Observed(PopTimer, task.call, task.connection.uri),
                    task.call, task.connection, outcome))

SessionIdNotFoundTimer ==
    /\ TimerDue("sessionIdNotFound")
    /\ Apply(sessionIdNotFoundCallback(PopTimer, Head(timers)))

StartExpansionTimer ==
    /\ TimerDue("startExpansion")
    /\ LET task == Head(timers)
       IN Apply(startExpansion(PopTimer, task.call, task.session,
                               task.nodeInfo, task.isRefresh))

\* Promise continuations run before any other task.
SessionContinuation ==
    /\ micro # <<>>
    /\ Apply(sessionContinuation([State EXCEPT !.micro = Tail(@)], Head(micro)))

\* The cluster answers a suspended startExpansion.
ExpansionResumes ==
    /\ micro = <<>>
    /\ \E i \in 1..Len(inflight) :
         /\ inflight[i].awaiting # "findNodeForContext"
         /\ \E outcome \in IoOutcomes(inflight[i]) :
              Apply(resumeExpansion(State, i, outcome))

\* The cluster answers a suspended findNodeForContext.
FindNodeResumes ==
    /\ micro = <<>>
    /\ \E i \in 1..Len(inflight) :
         /\ inflight[i].awaiting = "findNodeForContext"
         /\ \E outcome \in IoOutcomes(inflight[i]) :
              Apply(resumeFindNode(State, i, outcome))

Next ==
    \/ CreateSession
    \/ ExpandNode
    \/ RefreshNode
    \/ CloseSession
    \/ FindNodes
    \/ NotifyNodeChanged
    \/ FindNodeForContext
    \/ CreateSessionTimer
    \/ SessionIdNotFoundTimer
    \/ StartExpansionTimer
    \/ SessionContinuation
    \/ ExpansionResumes
    \/ FindNodeResumes

Spec == Init /\ [][Next]_vars

(***************************************************************************)
(* The cluster connections on their own                                    *)
(***************************************************************************)
ProviderIdle == UNCHANGED <<sessionMap, sessions, timers, micro, inflight, calls>>

\* The host holds two connection objects; nothing has been built.
InitCluster ==
    /\ sessionMap = <<>>
    /\ sessions = <<>>
    /\ timers = <<>>
    /\ micro = <<>>
    /\ inflight = <<>>
    /\ calls = <<>>
    /\ objects \in [Operands -> HostObjects]
    /\ clusterConns = [i \in Operands |-> NotBuilt]
    /\ lastResult = [op |-> "none"]

\* new SqlClusterConnection(objects[i]); the object built takes the place of
\* the one built from objects[i] before.
NewSqlClusterConnection ==
    /\ \E i \in Operands :
         LET r == SqlClusterConnection(objects, i)
         IN /\ objects' = r.heap
            /\ clusterConns' = IF r.threw THEN clusterConns
                               ELSE [clusterConns EXCEPT ![i] = r.this]
            /\ lastResult' = [op |-> "new", input |-> i, before |-> objects[i],
                              threw |-> r.threw, error |-> r.error]
    /\ ProviderIdle

\* clusterConns[a].isMatch(clusterConns[b]), or isMatch(undefined).
IsMatch ==
    /\ \E a \in Operands : \E b \in Operands : \E defined \in BOOLEAN :
         /\ clusterConns[a].built
         /\ defined => clusterConns[b].built
         /\ lastResult' =
              [op |-> "isMatch", this |-> a, obj |-> b, defined |-> defined,
               result |-> SqlClusterConnection_isMatch(
                              objects, clusterConns[a], defined, clusterConns[b])]
    /\ UNCHANGED <<objects, clusterConns>>
    /\ ProviderIdle

\* SqlClusterLookUp.lookUpSqlClusterInfo(objects[i])
LookUpSqlClusterInfo ==
    /\ \E i \in Operands :
         LET r == lookUpSqlClusterInfo(objects, i)
         IN /\ objects' = r.heap
            /\ lastResult' = [op |-> "lookUp", input |-> i, before |-> objects[i],
                              threw |-> r.threw, value |-> r.value]
    /\ UNCHANGED clusterConns
    /\ ProviderIdle

NextCluster ==
    \/ NewSqlClusterConnection
    \/ IsMatch
    \/ LookUpSqlClusterInfo

SpecCluster == InitCluster /\ [][NextCluster]_vars

(***************************************************************************)
(* The root nodes on their own: getChildren called with either flag,       *)
(* beside the expansions of the root paths by the provider                 *)
(***************************************************************************)
\* The connections sessions are built for.
ValidConnInfos == { ci \in ConnInfos : ConnectionValid(ci) }

\* Two sessions have been built and registered by doCreateSession (the first
\* closed before the second was created, when both have the same key); no
\* root has been asked for its children yet.
InitRoot ==
    /\ \E ci1 \in ValidConnInfos : \E ci2 \in ValidConnInfos :
         LET c1 == saveUriWithPrefix(Connection(ci1), objectExplorerPrefix)
             c2 == saveUriWithPrefix(Connection(ci2), objectExplorerPrefix)
         IN /\ sessions = (1 :> SetRoot(Session(c1), RootNode(1))) @@
                       (2 :> SetRoot(Session(c2), RootNode(2)))
            /\ sessionMap = MapSet(MapSet(<<>>, c1.uri, 1), c2.uri, 2)
    /\ timers = <<>>
    /\ micro = <<>>
    /\ inflight = <<>>
    /\ calls = <<>>
    /\ objects = [i \in Operands |-> NoObject]
    /\ clusterConns = [i \in Operands |-> NotBuilt]
    /\ lastResult = [op |-> "none"]

\* session.root.getChildren(refreshChildren), called on the root of a
\* session; what it returns is kept as the result of the call.
GetChildren ==
    /\ CanCall
    /\ \E sid \in DOMAIN sessions : \E refreshChildren \in BOOLEAN :
         LET arg == [session |-> sid, refreshChildren |-> refreshChildren]
             s1 == RootGetChildren(Invoke(State, "getChildren", arg),
                                   sid, refreshChildren)
         IN Apply(resolve(s1, NextId, s1.sessions[sid].children.nodes))

\* expandNode or refreshNode for the path of the root of a session.
ExpandRoot ==
    /\ CanCall
    /\ \E sid \in DOMAIN sessions : \E isRefresh \in BOOLEAN :
         LET nodeInfo == [defined |-> TRUE,
                          sessionId |-> SessionUri(State, sid),
                          nodePath |-> RootNodePath(State, sid)]
         IN IF isRefresh
            THEN Apply(refreshNode(Invoke(State, "refreshNode", nodeInfo),
                                   NextId, nodeInfo))
            ELSE Apply(expandNode(Invoke(State, "expandNode", nodeInfo),
                                  NextId, nodeInfo, FALSE))

NextRoot ==
    \/ GetChildren
    \/ ExpandRoot
    \/ StartExpansionTimer

SpecRoot == InitRoot /\ [][NextRoot]_vars

(***************************************************************************)
(* The provider with the tree of a closed session still around             *)
(***************************************************************************)
\* The identity of the session that was closed before the history starts:
\* no request of the history builds a session with it.
ClosedSid == MaxCalls + 2

\* A session was created, announced, its root expanded, and then closed: its
\* root and HDFS container still exist, the registry is empty and nothing is
\* scheduled.
InitStale ==
    /\ \E ci \in ValidConnInfos :
         LET c == saveUriWithPrefix(Connection(ci), objectExplorerPrefix)
             s0 == [sessionMap |-> <<>>,
                    sessions |-> ClosedSid :> SetRoot(Session(c), RootNode(ClosedSid)),
                    timers |-> <<>>, micro |-> <<>>, inflight |-> <<>>,
                    calls |-> <<>>]
         IN sessions = RootGetChildren(s0, ClosedSid, TRUE).sessions
    /\ sessionMap = <<>>
    /\ timers = <<>>
    /\ micro = <<>>
    /\ inflight = <<>>
    /\ calls = <<>>
    /\ objects = [i \in Operands |-> NoObject]
    /\ clusterConns = [i \in Operands |-> NotBuilt]
    /\ lastResult = [op |-> "none"]

\* The nodes of the closed session: its root and its HDFS container.
ClosedNodes == { TreeNode("root", ClosedSid), TreeNode("hdfs", ClosedSid) }

\* notifyNodeChanged(node) for a node of the closed session.
NotifyClosedNode ==
    /\ CanCall
    /\ \E node \in ClosedNodes :
         Apply(notifyNodeChanged(Invoke(State, "notifyNodeChanged", node),
                                 NextId, node))

NextStale ==
    \/ CreateSession
    \/ CloseSession
    \/ NotifyClosedNode
    \/ CreateSessionTimer
    \/ SessionContinuation
    \/ SessionIdNotFoundTimer
    \/ StartExpansionTimer
    \/ ExpansionResumes

SpecStale == InitStale /\ [][NextStale]_vars

(***************************************************************************)
(* Reading the history                                                     *)
(***************************************************************************)
CallIds == 1..Len(calls)

IsCreate(c) == calls[c].op = "createSession"

\* A createSession that returned a sessionId.
Created(c) == IsCreate(c) /\ calls[c].ret.state = "resolved"

KeyOf(c) == calls[c].ret.value.sessionId

TimersOf(c) == { i \in 1..Len(timers) : timers[i].call = c }
MicroOf(c) == { i \in 1..Len(micro) : micro[i].call = c }
InflightOf(c) == { i \in 1..Len(inflight) : inflight[i].call = c }

\* The deferred work of request c still waiting or running.
WorkOf(c) ==
    Cardinality(TimersOf(c)) + Cardinality(MicroOf(c)) + Cardinality(InflightOf(c))

\* Request c has returned and none of its work is left.
Done(c) == calls[c].ret.state # "pending" /\ WorkOf(c) = 0

\* The events of request c, by position.
EventIdx(c) == 1..Len(calls[c].evs)
Event(c, i) == calls[c].evs[i]

\* The request made by this step, when the step is a request.
IsRequest == Len(calls') = Len(calls) + 1
NewCall == calls'[Len(calls')]

(***************************************************************************)
(* Claims                                                                  *)
(***************************************************************************)
\* C1: no onSessionCreated event caused by a createSession is emitted before
\* that call has returned, and the call itself neither touches the registry
\* nor builds a session nor emits: all of that is left to the deferred step.
C1_EventAfterReturn ==
    /\ [](\A c \in CallIds : IsCreate(c) =>
            \A i \in EventIdx(c) :
                Event(c, i).type = "sessionCreated" /\ Event(c, i).afterReturn)
    /\ [][(IsRequest /\ NewCall.op = "createSession") =>
            /\ sessionMap' = sessionMap
            /\ sessions' = sessions
            /\ micro' = micro
            /\ NewCall.evs = <<>>]_vars

C1_Witness ==
    \E c \in CallIds : Created(c) /\
        \E i \in EventIdx(c) : Event(c, i).info.success /\ Event(c, i).afterReturn

\* C2 as stated: once the deferred work of a createSession that returned a
\* sessionId is over, exactly one onSessionCreated event exists for that call,
\* also when the key was already registered when the deferred step ran.
C2_ExactlyOneEventPerCall ==
    \A c \in CallIds : (Created(c) /\ Done(c)) => Len(calls[c].evs) = 1

\* C2 amended: the deferred step of every createSession that returned a
\* sessionId stays scheduled until it runs (nothing cancels it), at most one
\* onSessionCreated event is emitted for the call, and once its work is over
\* there is exactly one, unless the key was already in the registry when the
\* deferred step ran: then there is none.
C2_OneEventUnlessRegistered ==
    \A c \in CallIds : Created(c) =>
        /\ Cardinality(TimersOf(c)) = (IF calls[c].deferred = "waiting" THEN 1 ELSE 0)
        /\ Len(calls[c].evs) <= 1
        /\ Done(c) => Len(calls[c].evs) =
                        (IF calls[c].deferred = "keyPresent" THEN 0 ELSE 1)
        /\ ~Done(c) => calls[c].evs = <<>>

C2_Witness ==
    \E c, d \in CallIds :
        /\ Created(c) /\ Done(c) /\ calls[c].deferred = "keyPresent"
        /\ calls[c].evs = <<>>
        /\ Created(d) /\ Done(d) /\ calls[d].deferred = "keyAbsent"
        /\ Len(calls[d].evs) = 1

\* The createSession requests for key k made since the last closeSession(k).
CreatesSinceClose(k) ==
    { c \in CallIds : Created(c) /\ KeyOf(c) = k
        /\ \A j \in CallIds : (calls[j].op = "closeSession" /\ calls[j].arg = k) => j < c }

\* The success events for key k emitted since the last closeSession(k), as
\* pairs of request and position.
SuccessesSinceClose(k) ==
    { <<c, i>> \in CallIds \X (1..MaxCalls) :
        /\ IsCreate(c) /\ i <= Len(calls[c].evs)
        /\ calls[c].evs[i].info.sessionId = k
        /\ calls[c].evs[i].info.success
        /\ calls[c].evs[i].closes = ClosesOf(State, k) }

FailuresOf(c) == { i \in EventIdx(c) : ~Event(c, i).info.success }

RegisteredFor(k) == { i \in 1..Len(sessionMap) : sessionMap[i].key = k }

\* Two or more createSession requests for k since the last closeSession(k),
\* and the deferred work of every createSession for k is over.
TwoCreatesSettled(k) ==
    /\ Cardinality(CreatesSinceClose(k)) >= 2
    /\ \A c \in CallIds : (Created(c) /\ KeyOf(c) = k) => Done(c)

\* C3 as stated: two createSession calls for the same key with no closeSession
\* for it give exactly one success event and one registered session.
C3_ExactlyOneSuccess ==
    \A k \in Keys : TwoCreatesSettled(k) =>
        /\ Cardinality(SuccessesSinceClose(k)) = 1
        /\ Cardinality(RegisteredFor(k)) = 1

\* C3 amended: two createSession calls for the same key with no closeSession
\* for it never give two success events nor two registered sessions; they
\* give exactly one of each unless every construction that ran failed, and
\* then none: each such call has its failure event and the key is not
\* registered.
C3_OneSuccessUnlessAllFail ==
    \A k \in Keys : TwoCreatesSettled(k) =>
        /\ Cardinality(SuccessesSinceClose(k)) <= 1
        /\ Cardinality(RegisteredFor(k)) = Cardinality(SuccessesSinceClose(k))
        /\ Cardinality(SuccessesSinceClose(k)) = 0 =>
              \A c \in CreatesSinceClose(k) : FailuresOf(c) # {}

C3_Witness ==
    \E k \in Keys :
        /\ TwoCreatesSettled(k)
        /\ Cardinality(SuccessesSinceClose(k)) = 1
        /\ Cardinality(RegisteredFor(k)) = 1
        /\ \E c \in CreatesSinceClose(k) : calls[c].deferred = "keyPresent"

\* C4: when the construction of a session has failed (its .catch handler is
\* next to run), handling the failure leaves the key out of the registry and
\* emits, as the only event of that request, an onSessionCreated with
\* success=false, the sessionId the request returned, a non-empty error
\* message and no root node.
C4_FailureEvent ==
    [][(micro # <<>> /\ Head(micro).kind = "catch" /\ micro' # micro) =>
        LET c == Head(micro).call
        IN /\ ~MapHas(sessionMap', KeyOf(c))
           /\ Len(calls'[c].evs) = 1
           /\ LET e == calls'[c].evs[1]
              IN /\ e.type = "sessionCreated"
                 /\ e.info.success = FALSE
                 /\ e.info.sessionId = KeyOf(c)
                 /\ e.info.errorMessage \notin {Undefined, ""}
                 /\ e.info.rootNode = Undefined
                 /\ ~e.registered]_vars

\* A failure handled after the session had been put in the registry.
C4_Witness ==
    \E c \in CallIds :
        /\ Created(c) /\ Done(c) /\ c \in DOMAIN sessions
        /\ Len(calls[c].evs) = 1 /\ ~calls[c].evs[1].info.success
        /\ ~MapHas(sessionMap, KeyOf(c))

\* C5: a createSession with a malformed or incomplete connection is rejected
\* by the call itself: the call schedules nothing, leaves the registry and
\* every other part of the state as it was, and no event is ever emitted for
\* it.
C5_InvalidRejected ==
    /\ [](\A c \in CallIds : (IsCreate(c) /\ ~ConnectionValid(calls[c].arg)) =>
            /\ calls[c].ret.state = "rejected"
            /\ calls[c].evs = <<>>
            /\ WorkOf(c) = 0)
    /\ [][(IsRequest /\ NewCall.op = "createSession"
                     /\ ~ConnectionValid(NewCall.arg)) =>
            UNCHANGED <<sessionMap, sessions, timers, micro, inflight>>]_vars

C5_Witness ==
    \E c \in CallIds :
        /\ IsCreate(c) /\ calls[c].ret.state = "rejected"
        /\ c < Len(calls) /\ Len(calls) = MaxCalls
        /\ sessionMap # <<>> /\ timers = <<>> /\ micro = <<>>

IsExpand(c) == calls[c].op = "expandNode"

Refused(c) ==
    /\ IsExpand(c) /\ calls[c].arg.defined
    /\ calls[c].ret.state = "resolved" /\ calls[c].ret.value = FALSE

Accepted(c) ==
    /\ IsExpand(c) /\ calls[c].arg.defined
    /\ calls[c].ret.state = "resolved" /\ calls[c].ret.value = TRUE

\* C7: expandNode for a key that is not in the registry returns false and
\* changes nothing but the timer it schedules; the one onExpandCompleted event
\* of the request is emitted after the return, carries the sessionId and
\* nodePath of the request, the session-not-found message and no nodes, and
\* emitting it leaves the registry unchanged.
C7_UnknownSession ==
    /\ [][(IsRequest /\ NewCall.op = "expandNode" /\ NewCall.arg.defined
                     /\ ~MapHas(sessionMap, NewCall.arg.sessionId)) =>
            /\ NewCall.ret = [state |-> "resolved", value |-> FALSE]
            /\ NewCall.evs = <<>>
            /\ Len(timers') = Len(timers) + 1
            /\ UNCHANGED <<sessionMap, sessions, micro, inflight>>]_vars
    /\ [](\A c \in CallIds : Refused(c) =>
            /\ Len(calls[c].evs) = (IF Done(c) THEN 1 ELSE 0)
            /\ \A i \in EventIdx(c) :
                 /\ Event(c, i).type = "expandCompleted"
                 /\ Event(c, i).afterReturn
                 /\ Event(c, i).info.sessionId = calls[c].arg.sessionId
                 /\ Event(c, i).info.nodePath = calls[c].arg.nodePath
                 /\ Event(c, i).info.errorMessage = sessionIdNotFound
                 /\ Event(c, i).info.nodes = Undefined)
    /\ [][\A c \in CallIds :
            (Refused(c) /\ calls'[c].evs # calls[c].evs) =>
                UNCHANGED <<sessionMap, sessions>>]_vars

C7_Witness ==
    \E c \in CallIds :
        /\ Refused(c) /\ Done(c) /\ Len(calls[c].evs) = 1
        /\ MapHas(sessionMap, calls[c].arg.sessionId)

\* C8: an accepted expandNode has no onExpandCompleted event while its
\* deferred work (path resolution, child fetch) is waiting or running, and
\* exactly one once that work is over; the event is emitted after the call
\* returned and carries the sessionId and nodePath of the request.
C8_AcceptedExpansion ==
    \A c \in CallIds : Accepted(c) =>
        /\ Len(calls[c].evs) = (IF Done(c) THEN 1 ELSE 0)
        /\ WorkOf(c) <= 1
        /\ \A i \in EventIdx(c) :
             /\ Event(c, i).type = "expandCompleted"
             /\ Event(c, i).afterReturn
             /\ Event(c, i).info.sessionId = calls[c].arg.sessionId
             /\ Event(c, i).info.nodePath = calls[c].arg.nodePath

\* An expansion that went through both awaits on the cluster and returned
\* the listing.
C8_Witness ==
    \E c \in CallIds :
        /\ Accepted(c) /\ Done(c) /\ Len(calls[c].evs) = 1
        /\ calls[c].arg.nodePath = DeepPath(FirstKey)
        /\ calls[c].evs[1].info.errorMessage = Undefined
        /\ Len(calls[c].evs[1].info.nodes) = 1

\* The session an accepted expansion captured is no longer the one the
\* registry holds for the key: it was closed after the acceptance.
ClosedSince(c) == MapGet(sessionMap, calls[c].arg.sessionId) # calls[c].sid

\* C9: closeSession does not cancel an accepted expandNode.  When the session
\* it was accepted for has been closed, its deferred work is still there
\* until it has run, it holds the session captured at acceptance, and once
\* it is over the request has exactly one onExpandCompleted event, with the
\* captured session's uri, the expansion having rebuilt the children of that
\* session's root.
C9_NoCancelByClose ==
    \A c \in CallIds : (Accepted(c) /\ ClosedSince(c)) =>
        /\ \A i \in TimersOf(c) : timers[i].session = calls[c].sid
        /\ \A i \in InflightOf(c) : inflight[i].session = calls[c].sid
        /\ Done(c) =>
             /\ Len(calls[c].evs) = 1
             /\ calls[c].evs[1].info.sessionId =
                    sessions[calls[c].sid].connection.uri
             /\ sessions[calls[c].sid].built >= 1

\* closeSession ran between the acceptance and the deferred work, which
\* then completed without error.
C9_Witness ==
    \E c \in CallIds :
        /\ Accepted(c) /\ Done(c) /\ Len(calls[c].evs) = 1
        /\ ~calls[c].evs[1].registered
        /\ calls[c].evs[1].info.errorMessage = Undefined
        /\ \E j \in CallIds : j > c /\ calls[j].op = "closeSession"
                                    /\ calls[j].ret.value.success

\* How many closeSession(k) requests were made before request j.
ClosesBefore(j, k) ==
    Cardinality({ i \in 1..(j - 1) : calls[i].op = "closeSession" /\ calls[i].arg = k })

\* A session for k was created between the closeSession(k) before request j
\* (or the start) and request j: a success event for k was emitted then.
CreatedBefore(j, k) ==
    \E c \in CallIds : IsCreate(c) /\ \E i \in EventIdx(c) :
        /\ Event(c, i).info.sessionId = k
        /\ Event(c, i).info.success
        /\ Event(c, i).closes = ClosesBefore(j, k)

\* C10: closeSession(k) answers success exactly when k is in the registry,
\* echoes k, removes k and nothing else, and changes nothing at all when k
\* is not there; so its answer is success exactly when a session for k was
\* created since the previous closeSession(k): a second closeSession(k) with
\* no creation in between answers success=false.
C10_CloseSession ==
    /\ [][(IsRequest /\ NewCall.op = "closeSession") =>
            LET k == NewCall.arg
            IN /\ NewCall.ret = [state |-> "resolved",
                                 value |-> [success |-> MapHas(sessionMap, k),
                                            sessionId |-> k]]
               /\ sessionMap' = MapDelete(sessionMap, k)
               /\ ~MapHas(sessionMap', k)
               /\ ~MapHas(sessionMap, k) => sessionMap' = sessionMap
               /\ UNCHANGED <<sessions, timers, micro, inflight>>]_vars
    /\ [](\A j \in CallIds : calls[j].op = "closeSession" =>
            (calls[j].ret.value.success <=> CreatedBefore(j, calls[j].arg)))

\* closeSession(k) twice with no creation in between: success, then not.
C10_Witness ==
    \E i, j \in CallIds :
        /\ i < j
        /\ calls[i].op = "closeSession" /\ calls[j].op = "closeSession"
        /\ calls[i].arg = calls[j].arg
        /\ calls[i].ret.value.success
        /\ ~calls[j].ret.value.success

\* Key k is Pending: a createSession for it has returned and its deferred
\* construction has not run yet.
PendingKey(k) ==
    \E c \in CallIds : Created(c) /\ KeyOf(c) = k /\ calls[c].deferred = "waiting"

\* Key k is Active: a success event for it has been emitted since the last
\* closeSession(k).
ActiveKey(k) == SuccessesSinceClose(k) # {}

\* C11: an expandNode with a nodeInfo is accepted exactly when its key is
\* Active, which is when the key is in the registry; for a key that is
\* Pending and not Active it returns false and schedules the callback that
\* emits the session-not-found event, changing nothing else.
C11_PendingNotAccepted ==
    [][(IsRequest /\ NewCall.op = "expandNode" /\ NewCall.arg.defined) =>
        LET k == NewCall.arg.sessionId
        IN /\ NewCall.ret.state = "resolved"
           /\ NewCall.ret.value = ActiveKey(k)
           /\ ActiveKey(k) = MapHas(sessionMap, k)
           /\ (PendingKey(k) /\ ~ActiveKey(k)) =>
                /\ NewCall.ret.value = FALSE
                /\ timers' = Append(timers, [kind |-> "sessionIdNotFound",
                                             call |-> Len(calls'),
                                             nodeInfo |-> NewCall.arg])
                /\ UNCHANGED <<sessionMap, sessions, micro, inflight>>]_vars

\* The first request creates a session for k, the second asks to expand k
\* before the construction has run: it is refused and gets the
\* session-not-found event, and the construction then succeeds.
C11_Witness ==
    /\ Len(calls) >= 2
    /\ Created(1) /\ Refused(2) /\ calls[2].arg.sessionId = KeyOf(1)
    /\ Done(1) /\ Len(calls[1].evs) = 1 /\ calls[1].evs[1].info.success
    /\ Done(2) /\ Len(calls[2].evs) = 1
    /\ calls[2].evs[1].info.errorMessage = sessionIdNotFound

\* The construction started by createSession c has failed: its .catch handler
\* is waiting to run, or has emitted the failure event.
ConstructionFailed(c) ==
    /\ IsCreate(c)
    /\ \/ \E i \in MicroOf(c) : micro[i].kind = "catch"
       \/ FailuresOf(c) # {}

\* C12: a construction that fails never makes its key observable as Active.
\* The session it built is in the registry at most while its .catch handler
\* is the next thing to run: no request is handled and no event for the key
\* is emitted with the key in the registry; the request gets no success
\* event, and exactly one failure event, emitted with the key out of the
\* registry.
C12_FailedNeverActive ==
    /\ [](\A c \in CallIds : ConstructionFailed(c) =>
            /\ Len(calls[c].evs) = (IF Done(c) THEN 1 ELSE 0)
            /\ \A i \in EventIdx(c) :
                 /\ ~Event(c, i).info.success
                 /\ Event(c, i).info.sessionId = KeyOf(c)
                 /\ ~Event(c, i).registered
            /\ MapGet(sessionMap, KeyOf(c)) = c =>
                 (micro # <<>> /\ Head(micro).call = c))
    /\ [][\A c \in CallIds :
            (ConstructionFailed(c) /\ MapGet(sessionMap, KeyOf(c)) = c) =>
                /\ ~IsRequest
                /\ MapGet(sessionMap', KeyOf(c)) # c
                /\ \A d \in CallIds :
                     \A i \in (Len(calls[d].evs) + 1)..Len(calls'[d].evs) :
                        calls'[d].evs[i].info.sessionId = KeyOf(c) =>
                            ~calls'[d].evs[i].registered]_vars

\* A construction that failed after the session had been put in the
\* registry, followed by a createSession for the same key that succeeded.
C12_Witness ==
    \E c, d \in CallIds :
        /\ c < d /\ Created(c) /\ Created(d) /\ KeyOf(c) = KeyOf(d)
        /\ Done(c) /\ c \in DOMAIN sessions /\ FailuresOf(c) # {}
        /\ Done(d) /\ Len(calls[d].evs) = 1 /\ calls[d].evs[1].info.success
        /\ MapGet(sessionMap, KeyOf(d)) = d

IsRefresh(c) == calls[c].op = "refreshNode"

\* A queue of tasks with the isRefresh flag of each task put to FALSE.
NoFlag(seq) ==
    [i \in 1..Len(seq) |->
        IF "isRefresh" \in DOMAIN seq[i] THEN [seq[i] EXCEPT !.isRefresh = FALSE]
        ELSE seq[i]]

\* The step leaves the state st, but for the isRefresh flag of the tasks.
SameButFlag(st) ==
    /\ sessionMap' = st.sessionMap
    /\ sessions' = st.sessions
    /\ micro' = st.micro
    /\ calls' = st.calls
    /\ NoFlag(timers') = NoFlag(st.timers)
    /\ NoFlag(inflight') = NoFlag(st.inflight)

\* C13: refreshNode(nodeInfo) leaves, in every state and for every nodeInfo
\* (absent, unknown key, known key), the state and the answer that
\* expandNode(nodeInfo) leaves, and its deferred expansion does what the one
\* of an expandNode does, rebuilding the children of the session's root
\* whenever the path lies at or below the root; the request gets no event
\* when it is rejected for an absent nodeInfo and otherwise exactly one
\* onExpandCompleted, after its return, with its sessionId and nodePath.
C13_RefreshAsExpand ==
    /\ [][(IsRequest /\ NewCall.op = "refreshNode") =>
            SameButFlag(expandNode(Invoke(State, "refreshNode", NewCall.arg),
                                   NextId, NewCall.arg, FALSE))]_vars
    /\ [][(TimerDue("startExpansion") /\ Head(timers).isRefresh
                                     /\ timers' = Tail(timers)) =>
            LET t == Head(timers)
            IN /\ SameButFlag(startExpansion(PopTimer, t.call, t.session,
                                             t.nodeInfo, FALSE))
               /\ IsPrefix(RootNodePath(State, t.session), t.nodeInfo.nodePath) =>
                    /\ sessions'[t.session].built = sessions[t.session].built + 1
                    /\ sessions'[t.session].children =
                          [cached |-> TRUE,
                           nodes |-> <<ConnectionNode(sessions[t.session].built + 1,
                                                      t.session)>>]]_vars
    /\ [](\A c \in CallIds : IsRefresh(c) =>
            IF ~calls[c].arg.defined
            THEN /\ calls[c].ret.state = "rejected"
                 /\ calls[c].evs = <<>>
                 /\ WorkOf(c) = 0
            ELSE /\ calls[c].ret.state = "resolved"
                 /\ calls[c].ret.value \in BOOLEAN
                 /\ WorkOf(c) <= 1
                 /\ Len(calls[c].evs) = (IF Done(c) THEN 1 ELSE 0)
                 /\ \A i \in EventIdx(c) :
                      /\ Event(c, i).type = "expandCompleted"
                      /\ Event(c, i).afterReturn
                      /\ Event(c, i).info.sessionId = calls[c].arg.sessionId
                      /\ Event(c, i).info.nodePath = calls[c].arg.nodePath)

\* A refreshNode of a root whose children an expandNode had already built:
\* it is accepted, and its event lists the one child, built anew.
C13_Witness ==
    \E c, e \in CallIds :
        /\ e < c /\ Accepted(e) /\ Done(e)
        /\ IsRefresh(c) /\ calls[c].arg = calls[e].arg
        /\ calls[c].ret.state = "resolved" /\ calls[c].ret.value = TRUE
        /\ calls[c].arg.nodePath = RootPath(calls[c].arg.sessionId)
        /\ calls[c].sid = calls[e].sid
        /\ Done(c) /\ Len(calls[c].evs) = 1
        /\ Len(calls[c].evs[1].info.nodes) = 1
        /\ sessions[calls[c].sid].built = 2

\* C14: findNodes answers, for every argument and in every state, with an
\* empty node list; the call changes nothing (registry, sessions, scheduled
\* work) and no event is ever emitted for it.
C14_FindNodesEmpty ==
    /\ [][(IsRequest /\ NewCall.op = "findNodes") =>
            /\ NewCall.ret = [state |-> "resolved", value |-> [nodes |-> <<>>]]
            /\ NewCall.evs = <<>>
            /\ UNCHANGED <<sessionMap, sessions, timers, micro, inflight>>]_vars
    /\ [](\A c \in CallIds : calls[c].op = "findNodes" =>
            /\ calls[c].ret.value.nodes = <<>>
            /\ calls[c].evs = <<>>
            /\ WorkOf(c) = 0)

\* findNodes asked for a node of a registered session whose root has been
\* expanded.
C14_Witness ==
    \E c \in CallIds :
        /\ calls[c].op = "findNodes" /\ calls[c].arg.defined
        /\ calls[c].ret.state = "resolved"
        /\ MapHas(sessionMap, calls[c].arg.sessionId)
        /\ sessions[MapGet(sessionMap, calls[c].arg.sessionId)].children.cached

IsNotify(c) == calls[c].op = "notifyNodeChanged"

\* The parent chain of the node of notification c reaches a RootNode.
UnderRoot(node) == node.defined /\ node.session # 0

\* C15: the promise of a notifyNodeChanged is never rejected.  For a node
\* whose parent chain reaches a RootNode the call shows no error and
\* requests one refresh-class expansion, with the node's path and the uri of
\* the root's session: one callback is scheduled (the expansion with the
\* refresh flag, or the session-not-found event when the key is no longer
\* registered).  For a node whose chain ends without a RootNode the call
\* shows one error message, schedules nothing, changes nothing else and no
\* event is ever emitted for it.  Without a node the error raised is
\* swallowed: nothing is shown, scheduled or emitted.
C15_NotifyNodeChanged ==
    /\ [](\A c \in CallIds : IsNotify(c) =>
            /\ calls[c].ret = [state |-> "resolved", value |-> Undefined]
            /\ ~UnderRoot(calls[c].arg) =>
                 /\ calls[c].evs = <<>>
                 /\ WorkOf(c) = 0
                 /\ Len(calls[c].shown) = (IF calls[c].arg.defined THEN 1 ELSE 0)
            /\ UnderRoot(calls[c].arg) =>
                 /\ calls[c].shown = <<>>
                 /\ Len(calls[c].evs) = (IF Done(c) THEN 1 ELSE 0)
                 /\ \A i \in EventIdx(c) :
                      /\ Event(c, i).type = "expandCompleted"
                      /\ Event(c, i).info.sessionId =
                            sessions[calls[c].arg.session].connection.uri)
    /\ [][(IsRequest /\ NewCall.op = "notifyNodeChanged") =>
            LET node == NewCall.arg
            IN IF UnderRoot(node)
               THEN /\ Len(timers') = Len(timers) + 1
                    /\ SubSeq(timers', 1, Len(timers)) = timers
                    /\ LET t == timers'[Len(timers')]
                           k == sessions[node.session].connection.uri
                       IN /\ t.call = Len(calls')
                          /\ t.nodeInfo.sessionId = k
                          /\ t.nodeInfo.nodePath =
                                (IF node.kind = "root" THEN <<k>>
                                 ELSE <<k, hdfsFolder>>)
                          /\ IF MapHas(sessionMap, k)
                             THEN /\ t.kind = "startExpansion"
                                  /\ t.isRefresh
                                  /\ t.session = MapGet(sessionMap, k)
                             ELSE t.kind = "sessionIdNotFound"
                    /\ UNCHANGED <<sessionMap, sessions, micro, inflight>>
               ELSE UNCHANGED <<sessionMap, sessions, timers, micro, inflight>>]_vars

\* Two notifications: for a folder under no root (an error is shown), and
\* for the root of a registered session, whose refresh has completed.
C15_Witness ==
    \E b, c \in CallIds :
        /\ IsNotify(b) /\ calls[b].arg.defined /\ Len(calls[b].shown) = 1
        /\ calls[b].evs = <<>>
        /\ IsNotify(c) /\ UnderRoot(calls[c].arg) /\ Done(c)
        /\ Len(calls[c].evs) = 1
        /\ calls[c].evs[1].info.errorMessage = Undefined

IsFind(c) == calls[c].op = "findNodeForContext"

\* The places of the registry whose session has the host, port and user of
\* the profile, an absent port of the profile standing for the default.
MatchingPlaces(profile) ==
    { i \in 1..Len(sessionMap) :
        LET connection == sessions[sessionMap[i].sid].connection
        IN /\ connection.host = profile.host
           /\ connection.user = profile.user
           /\ connection.knoxport =
                 (IF profile.knoxport = Undefined THEN defaultKnoxPort
                  ELSE profile.knoxport) }

C17_MatchIffReported ==
    lastResult.op = "isMatch" =>
        LET this == clusterConns[lastResult.this]
            obj == clusterConns[lastResult.obj]
        IN IF ~lastResult.defined
           THEN lastResult.result = FALSE
           ELSE lastResult.result =
                  (/\ SqlClusterConnection_host(this) = SqlClusterConnection_host(obj)
                   /\ SqlClusterConnection_port(this) = SqlClusterConnection_port(obj)
                   /\ SqlClusterConnection_user(this) = SqlClusterConnection_user(obj))

\* The last operation was new SqlClusterConnection(..) on an object.
LastNew == lastResult.op = "new"

\* The object built by the last operation, when it did not throw.
LastBuilt == clusterConns[lastResult.input]

HasOptions(obj) == obj.defined /\ "options" \in DOMAIN obj.fields

\* The object has options with every property of props.
HasProps(obj, props) ==
    HasOptions(obj) /\ \A e \in props : e \in DOMAIN obj.fields.options

\* C18 as stated: normalizing an object whose options have a host, a user
\* and a password but no port does not fail, and the object built reports
\* the default port "30443".
C18_NoPortGivesDefault ==
    (/\ LastNew
     /\ HasProps(lastResult.before, {"host", "user", "password"})
     /\ "knoxport" \notin DOMAIN lastResult.before.fields.options) =>
        /\ ~lastResult.threw
        /\ LastBuilt.built
        /\ SqlClusterConnection_port(LastBuilt) = "30443"

\* The SqlClusterConnection objects built so far.
BuiltOperands == { i \in Operands : clusterConns[i].built }

\* C19: new SqlClusterConnection(obj) throws, with the invalid-connection
\* message, exactly when obj is absent, has no options, or its options lack
\* the host, the port, the user or the password; otherwise the object built
\* reports the host, user and password of the options.  The shape of obj
\* (profile, with an id; connection, with a connectionId) plays no part: two
\* objects built from equal options report the same host, port, user and
\* password.
C19_InvalidExactly ==
    /\ LastNew =>
         /\ lastResult.threw <=>
               ~HasProps(lastResult.before, {"host", "knoxport", "user", "password"})
         /\ lastResult.threw => lastResult.error = "Invalid ConnectionInfo is provided."
         /\ ~lastResult.threw =>
               /\ LastBuilt.built
               /\ LastBuilt.sqlClusterConnInfo = lastResult.input
               /\ SqlClusterConnection_host(LastBuilt) =
                     lastResult.before.fields.options.host
               /\ SqlClusterConnection_user(LastBuilt) =
                     lastResult.before.fields.options.user
               /\ SqlClusterConnection_pass(LastBuilt) =
                     lastResult.before.fields.options.password
    /\ \A a, b \in BuiltOperands :
         (objects[a].fields.options = objects[b].fields.options) =>
            /\ SqlClusterConnection_host(clusterConns[a]) = SqlClusterConnection_host(clusterConns[b])
            /\ SqlClusterConnection_port(clusterConns[a]) = SqlClusterConnection_port(clusterConns[b])
            /\ SqlClusterConnection_user(clusterConns[a]) = SqlClusterConnection_user(clusterConns[b])
            /\ SqlClusterConnection_pass(clusterConns[a]) = SqlClusterConnection_pass(clusterConns[b])

\* A profile and a connection with the same options have both been
\* normalized, the connection last; the profile took the port "".
C19_Witness ==
    /\ LastNew /\ ~lastResult.threw /\ lastResult.input = "obj"
    /\ BuiltOperands = Operands
    /\ clusterConns["this"].profileIsInput /\ ~clusterConns["obj"].profileIsInput
    /\ objects["this"].fields.options = objects["obj"].fields.options
    /\ clusterConns["obj"].port_ = ""

\* C20 as stated: normalizing leaves the object passed as it was, with the
\* same properties and the same values, for a profile and for a connection;
\* so do the converters that make a connection parameter of them.
C20_InputUnchanged ==
    lastResult.op \in {"new", "lookUp"} =>
        objects[lastResult.input] = lastResult.before

\* The step is a call of getChildren on the root of session sid.
IsGetChildren(sid) ==
    /\ IsRequest
    /\ NewCall.op = "getChildren"
    /\ NewCall.arg.session = sid

\* The children ever built by the root of session sid, by identity.
ChildrenBuilt(sid) == 1..sessions[sid].built

\* C21: getChildren(false) on a root that has its children returns the
\* cached sequence, the same child by identity, and builds nothing, however
\* often it is called; getChildren(true), and the first getChildren of a
\* root, drop what was cached and return one child never built before.
C21_GetChildrenIdempotent ==
    [][\A sid \in DOMAIN sessions : IsGetChildren(sid) =>
         /\ NewCall.ret.state = "resolved"
         /\ NewCall.ret.value = sessions'[sid].children.nodes
         /\ sessions'[sid].children.cached
         /\ \A other \in DOMAIN sessions \ {sid} : sessions'[other] = sessions[other]
         /\ IF NewCall.arg.refreshChildren \/ ~sessions[sid].children.cached
            THEN /\ Len(NewCall.ret.value) = 1
                 /\ NewCall.ret.value[1].id \notin ChildrenBuilt(sid)
                 /\ sessions'[sid].built = sessions[sid].built + 1
            ELSE /\ NewCall.ret.value = sessions[sid].children.nodes
                 /\ sessions'[sid] = sessions[sid]]_vars

\* A root was asked three times: the second call, unforced, returned the
\* child of the first, the third, forced, another one.
C21_Witness ==
    /\ Len(calls) = 3
    /\ \A c \in 1..3 : calls[c].op = "getChildren" /\ calls[c].arg.session = 1
    /\ ~calls[2].arg.refreshChildren /\ calls[3].arg.refreshChildren
    /\ calls[2].ret.value = calls[1].ret.value
    /\ calls[3].ret.value # calls[2].ret.value

\* The continuation about to run is the .then handler of a construction
\* that succeeded.
ConstructionSucceeded == micro # <<>> /\ Head(micro).kind = "then"

\* The event describes the session request c built, as created.
SuccessEventOf(c, e) ==
    /\ e.type = "sessionCreated"
    /\ e.info.success = TRUE
    /\ e.info.errorMessage = Undefined
    /\ e.info.sessionId = KeyOf(c)
    /\ e.info.rootNode.label = sessions[c].connection.host
    /\ e.info.rootNode.isLeaf = FALSE
    /\ e.info.rootNode.nodeType = "hadoop:root"

\* C22: when the construction of a createSession succeeds, its handler emits
\* one onSessionCreated event with success true, no error message, the
\* sessionId the call returned, and a root node labelled with the host of
\* the connection, not a leaf, of type hadoop:root; and every success event
\* a createSession has is of that form.
C22_SuccessEvent ==
    /\ [][ConstructionSucceeded =>
            LET c == Head(micro).call
            IN /\ Created(c)
               /\ Len(calls'[c].evs) = Len(calls[c].evs) + 1
               /\ SuccessEventOf(c, calls'[c].evs[Len(calls'[c].evs)])]_vars
    /\ [](\A c \in CallIds : IsCreate(c) =>
            \A i \in EventIdx(c) :
                Event(c, i).info.success => (Created(c) /\ SuccessEventOf(c, Event(c, i))))

\* A session for host h1, port absent, has been created.
C22_Witness ==
    \E c \in CallIds :
        /\ Created(c) /\ Done(c)
        /\ calls[c].arg = ConnInfo("h1", Undefined, "root", "pw")
        /\ Len(calls[c].evs) = 1
        /\ calls[c].evs[1].info.success
        /\ calls[c].evs[1].info.rootNode.label = "h1"

\* C23: every session the registry holds is stored under its own uri, has
\* its root assigned, and is the session of that root; the root field of a
\* session was assigned once, and is never assigned again.
C23_RegistryWellFormed ==
    /\ [](\A i \in 1..Len(sessionMap) :
            LET e == sessionMap[i]
            IN /\ e.sid \in DOMAIN sessions
               /\ e.key = sessions[e.sid].connection.uri
               /\ sessions[e.sid].root.defined
               /\ sessions[e.sid].root.session = e.sid
               /\ sessions[e.sid].rootSets = 1)
    /\ [](\A i, j \in 1..Len(sessionMap) :
            sessionMap[i].key = sessionMap[j].key => i = j)
    /\ [][\A sid \in DOMAIN sessions :
            /\ sid \in DOMAIN sessions'
            /\ sessions'[sid].root = sessions[sid].root
            /\ sessions'[sid].rootSets = sessions[sid].rootSets]_vars

\* Two sessions are registered, the root of one expanded since.
C23_Witness ==
    /\ Len(sessionMap) = 2
    /\ \E i \in 1..Len(sessionMap) : sessions[sessionMap[i].sid].built > 0

\* An expandNode or refreshNode for the path of a root that was accepted.
RootExpansion(c) ==
    /\ calls[c].op \in {"expandNode", "refreshNode"}
    /\ calls[c].ret = [state |-> "resolved", value |-> TRUE]
    /\ calls[c].arg.nodePath = <<calls[c].arg.sessionId>>

\* C24: whatever getChildren calls a root has had, forced or not, its
\* children are exactly one node, the HDFS container, whose parent is that
\* root, and that is what each call returned; an accepted expansion of the
\* path of a root reports exactly one child node and no error.
C24_OneChild ==
    /\ \A sid \in DOMAIN sessions :
         LET children == sessions[sid].children
         IN IF children.cached
            THEN /\ Len(children.nodes) = 1
                 /\ children.nodes[1].label = hdfsFolder
                 /\ children.nodes[1].parent = sessions[sid].root
                 /\ children.nodes[1].parent.session = sid
            ELSE sessions[sid].built = 0
    /\ \A c \in CallIds :
         /\ calls[c].op = "getChildren" => Len(calls[c].ret.value) = 1
         /\ (RootExpansion(c) /\ Done(c)) =>
               /\ Len(calls[c].evs) = 1
               /\ calls[c].evs[1].info.errorMessage = Undefined
               /\ Len(calls[c].evs[1].info.nodes) = 1

\* A root was asked for its children twice, forced and not, and then its
\* path was expanded.
C24_Witness ==
    /\ Len(calls) = 3
    /\ calls[1].op = "getChildren" /\ calls[1].arg.refreshChildren
    /\ calls[2].op = "getChildren" /\ ~calls[2].arg.refreshChildren
    /\ calls[1].arg.session = calls[2].arg.session
    /\ RootExpansion(3) /\ Done(3)
    /\ calls[3].sid = calls[1].arg.session
    /\ sessions[calls[3].sid].built = 2

\* The step resumes the suspended expansion inflight[i] with this answer of
\* the cluster.
ResumedWith(i, outcome) ==
    /\ micro = <<>>
    /\ inflight[i].awaiting # "findNodeForContext"
    /\ outcome \in IoOutcomes(inflight[i])
    /\ LET s == resumeExpansion(State, i, outcome)
       IN calls' = s.calls /\ inflight' = s.inflight /\ sessions' = s.sessions

\* The step emitted this one event for request c, which had none, with the
\* message and an empty node list, threw nothing to the caller (the result
\* of the call stands) and left the registry alone.
FailureReported(c, message) ==
    /\ calls[c].evs = <<>>
    /\ Len(calls'[c].evs) = 1
    /\ calls'[c].evs[1].type = "expandCompleted"
    /\ calls'[c].evs[1].info.errorMessage = message
    /\ calls'[c].evs[1].info.nodes = <<>>
    /\ calls'[c].ret = calls[c].ret
    /\ calls[c].ret.state = "resolved"
    /\ sessionMap' = sessionMap
    /\ \A d \in CallIds \ {c} : calls'[d] = calls[d]

\* An accepted expansion, asked for as expandNode or as refreshNode (or by
\* notifyNodeChanged), by the session it captured.
AcceptedExpansion(c) == calls[c].sid # 0

\* C25: when the path of an accepted expansion resolves to no node, its
\* one onExpandCompleted event carries the node-not-found message and an
\* empty node list; when the path resolution or the child fetch raises an
\* error, it carries that error's message and an empty node list; either
\* way the call's result stands, nothing else is emitted and the registry
\* is unchanged.  An accepted expansion has no event but that one, and an
\* event with an error message has no nodes.
C25_ExpansionFailures ==
    /\ [][\A i \in 1..Len(inflight) :
            /\ ResumedWith(i, "error") =>
                  FailureReported(inflight[i].call, getErrorMessage(IoError))
            /\ ResumedWith(i, "notFound") =>
                  FailureReported(inflight[i].call, nodeNotFound)]_vars
    /\ [](\A c \in CallIds : AcceptedExpansion(c) =>
            /\ Len(calls[c].evs) <= 1
            /\ calls[c].ret.state = "resolved"
            /\ \A i \in EventIdx(c) :
                 Event(c, i).info.errorMessage # Undefined =>
                    /\ Event(c, i).info.errorMessage \in
                          {nodeNotFound, getErrorMessage(IoError)}
                    /\ Event(c, i).info.nodes = <<>>)

\* Two expansions failed: the path of one resolved to no node, the child
\* fetch of the other raised an error.
C25_Witness ==
    \E c, d \in CallIds :
        /\ IsExpand(c) /\ IsExpand(d)
        /\ AcceptedExpansion(c) /\ AcceptedExpansion(d)
        /\ Done(c) /\ Done(d)
        /\ Len(calls[c].evs) = 1 /\ Len(calls[d].evs) = 1
        /\ calls[c].evs[1].info.errorMessage = nodeNotFound
        /\ calls[d].arg.nodePath = HdfsPath(FirstKey)
        /\ calls[d].evs[1].info.errorMessage = getErrorMessage(IoError)

\* The program state after the step.
StateAfter ==
    [sessionMap |-> sessionMap', sessions |-> sessions', timers |-> timers',
     micro |-> micro', inflight |-> inflight', calls |-> calls']

\* What expandNode for the root of key k answers when it is called in the
\* state the step leaves, as a handler of the event the step emitted does.
ExpandFromHandler(k) ==
    LET nodeInfo == [defined |-> TRUE, sessionId |-> k, nodePath |-> RootPath(k)]
        id == Len(calls') + 1
    IN expandNode(Invoke(StateAfter, "expandNode", nodeInfo),
                  id, nodeInfo, FALSE).calls[id].ret

\* C26: when an onSessionCreated success event for key k is emitted, the
\* registry holds k, with the session the event describes, so that an
\* expandNode for k called from a handler of the event returns true; every
\* success event was emitted with its key in the registry.
C26_RegisteredAtSuccess ==
    /\ [][ConstructionSucceeded =>
            LET c == Head(micro).call
                k == Head(micro).sessionInfo.sessionId
            IN /\ calls'[c].evs # calls[c].evs
               /\ MapHas(sessionMap, k) /\ MapHas(sessionMap', k)
               /\ MapGet(sessionMap', k) = c
               /\ ExpandFromHandler(k) = [state |-> "resolved", value |-> TRUE]]_vars
    /\ [](\A c \in CallIds : IsCreate(c) =>
            \A i \in EventIdx(c) :
                Event(c, i).info.success => Event(c, i).registered)

\* A session was announced while a closeSession for its key had already been
\* refused, and an expansion of its key was accepted afterwards.
C26_Witness ==
    \E c, d, x \in CallIds :
        /\ Created(c) /\ Len(calls[c].evs) = 1
        /\ calls[c].evs[1].info.success /\ calls[c].evs[1].registered
        /\ calls[c].evs[1].closes = 1
        /\ calls[d].op = "closeSession" /\ calls[d].arg = KeyOf(c)
        /\ Accepted(x) /\ calls[x].arg.sessionId = KeyOf(c)

\* The step runs the oldest timer's callback.
IsTimerStep == timers # <<>> /\ timers' = Tail(timers) /\ ~IsRequest

\* The step runs a promise continuation.
IsContinuationStep == micro # <<>> /\ micro' = Tail(micro)

\* C27: the set of keys of the registry changes only in these steps: the
\* timer callback of a createSession may add its key, the failure handler
\* of a createSession removes its key, and a closeSession request removes
\* the key it names.  Every other step (an expandNode, refreshNode,
\* findNodes, findNodeForContext, notifyNodeChanged or createSession
\* request, the callbacks and resumptions of an expansion, the resumption
\* of a findNodeForContext, the success handler) leaves the registry as it
\* is.
C27_RegistryFrame ==
    [][LET keys == MapKeys(sessionMap)
           keysAfter == MapKeys(sessionMap')
       IN IF IsRequest /\ NewCall.op = "closeSession"
          THEN keysAfter = keys \ {NewCall.arg}
          ELSE IF IsTimerStep /\ Head(timers).kind = "createSession"
          THEN /\ keys \subseteq keysAfter
               /\ keysAfter \subseteq keys \cup {Head(timers).connection.uri}
          ELSE IF IsContinuationStep /\ Head(micro).kind = "catch"
          THEN keysAfter = keys \ {Head(micro).connection.uri}
          ELSE sessionMap' = sessionMap]_vars

\* A key was added by the deferred step of a createSession, a
\* findNodeForContext found its root, and a closeSession removed it.
C27_Witness ==
    \E c, f, d \in CallIds :
        /\ Created(c) /\ Len(calls[c].evs) = 1 /\ calls[c].evs[1].info.success
        /\ IsFind(f) /\ calls[f].ret.state = "resolved" /\ calls[f].ret.value.defined
        /\ calls[d].op = "closeSession" /\ calls[d].ret.value.success
        /\ sessionMap = <<>>

\* The closeSession requests for key k made after request c.
ClosesAfter(c, k) ==
    { d \in CallIds : d > c /\ calls[d].op = "closeSession" /\ calls[d].arg = k }

\* C28: a closeSession(k) made while k is Pending and not Active (a
\* createSession for k has returned, its construction has not run, and no
\* session for k is registered) answers success false and changes nothing:
\* the construction stays scheduled.  When its callback runs it finds the
\* key absent and builds the session, so that, the construction succeeding,
\* the session is registered and announced; a key announced after the last
\* closeSession for it is in the registry, whatever was closed before.
C28_CloseWhilePending ==
    /\ [][(IsRequest /\ NewCall.op = "closeSession"
            /\ PendingKey(NewCall.arg) /\ ~MapHas(sessionMap, NewCall.arg)) =>
            /\ NewCall.ret = [state |-> "resolved",
                              value |-> [success |-> FALSE,
                                         sessionId |-> NewCall.arg]]
            /\ UNCHANGED <<sessionMap, sessions, timers, micro, inflight>>
            /\ \A c \in CallIds :
                 (Created(c) /\ KeyOf(c) = NewCall.arg /\ calls[c].deferred = "waiting")
                    => /\ calls'[c] = calls[c]
                       /\ \E i \in 1..Len(timers') :
                            timers'[i].kind = "createSession" /\ timers'[i].call = c]_vars
    /\ [][(IsTimerStep /\ Head(timers).kind = "createSession"
            /\ ~MapHas(sessionMap, Head(timers).connection.uri)) =>
            /\ Len(micro') = 1
            /\ micro'[1].call = Head(timers).call
            /\ micro'[1].kind = "then" =>
                  MapGet(sessionMap', Head(timers).connection.uri) = Head(timers).call]_vars
    /\ [](\A c \in CallIds : Created(c) =>
            /\ (calls[c].deferred = "waiting" => TimersOf(c) # {})
            /\ \A i \in EventIdx(c) :
                 (Event(c, i).info.success
                  /\ Event(c, i).closes = ClosesOf(State, KeyOf(c))) =>
                     /\ MapGet(sessionMap, KeyOf(c)) = c
                     /\ ActiveKey(KeyOf(c)))

\* A closeSession for the key of a pending createSession was refused, and
\* the session was then registered and announced.
C28_Witness ==
    \E c \in CallIds :
        /\ Created(c) /\ Done(c)
        /\ \E d \in ClosesAfter(c, KeyOf(c)) :
              /\ ~calls[d].ret.value.success
              /\ Len(calls[c].evs) = 1
              /\ calls[c].evs[1].info.success
              /\ calls[c].evs[1].closes = ClosesBefore(d, KeyOf(c)) + 1
        /\ MapGet(sessionMap, KeyOf(c)) = c
        /\ ActiveKey(KeyOf(c))

\* A notifyNodeChanged for a node of the closed session.
NotifyOfClosed(c) == IsNotify(c) /\ calls[c].arg.session = ClosedSid

ClosedKey == sessions[ClosedSid].connection.uri

\* C29 as stated: notifyNodeChanged on a node of a session that was closed
\* shows no error; the refresh it requests under the key of that session is
\* rejected, and produces exactly one onExpandCompleted event, with the
\* session-not-found message.
C29_ClosedSessionRejected ==
    \A c \in CallIds : NotifyOfClosed(c) =>
        /\ calls[c].shown = <<>>
        /\ calls[c].sid = 0
        /\ Len(calls[c].evs) = (IF Done(c) THEN 1 ELSE 0)
        /\ \A i \in EventIdx(c) :
             /\ Event(c, i).type = "expandCompleted"
             /\ Event(c, i).info.sessionId = ClosedKey
             /\ Event(c, i).info.errorMessage = sessionIdNotFound

\* C29, amended: notifyNodeChanged on a node of a session that was closed
\* shows no error and requests a refresh of the node's path under the key
\* of that session.  When no session is registered under the key, the
\* refresh is rejected and its one onExpandCompleted event carries the
\* session-not-found message; when a session has been created under the
\* same key since, the refresh is accepted for that session, and its one
\* event is that of the expansion.
C29_ClosedSessionRefresh ==
    /\ [](\A c \in CallIds : NotifyOfClosed(c) =>
            /\ calls[c].shown = <<>>
            /\ calls[c].ret = [state |-> "resolved", value |-> Undefined]
            /\ calls[c].sid # ClosedSid
            /\ calls[c].sid # 0 => SessionUri(State, calls[c].sid) = ClosedKey
            /\ Len(calls[c].evs) = (IF Done(c) THEN 1 ELSE 0)
            /\ \A i \in EventIdx(c) :
                 /\ Event(c, i).type = "expandCompleted"
                 /\ Event(c, i).info.sessionId = ClosedKey
                 /\ (Event(c, i).info.errorMessage = sessionIdNotFound)
                       <=> (calls[c].sid = 0))
    /\ [][(IsRequest /\ NewCall.op = "notifyNodeChanged"
            /\ NewCall.arg.session = ClosedSid) =>
            /\ NewCall.sid = MapGet(sessionMap, ClosedKey)
            /\ Len(timers') = Len(timers) + 1
            /\ timers'[Len(timers')].call = Len(calls')
            /\ timers'[Len(timers')].nodeInfo.sessionId = ClosedKey
            /\ timers'[Len(timers')].kind =
                  (IF MapHas(sessionMap, ClosedKey) THEN "startExpansion"
                   ELSE "sessionIdNotFound")
            /\ UNCHANGED <<sessionMap, sessions, micro, inflight>>]_vars

\* Both cases: a notification was rejected while no session had the key,
\* and, a session having been created under the key, another was accepted
\* and its refresh completed.
C29_Witness ==
    \E b, c \in CallIds :
        /\ NotifyOfClosed(b) /\ Done(b) /\ calls[b].sid = 0
        /\ Len(calls[b].evs) = 1
        /\ calls[b].evs[1].info.errorMessage = sessionIdNotFound
        /\ NotifyOfClosed(c) /\ Done(c) /\ calls[c].sid # 0
        /\ Len(calls[c].evs) = 1
        /\ calls[c].evs[1].info.errorMessage = Undefined

\* Two program states that differ at most in the isRefresh flag their
\* scheduled and suspended expansions carry.
SameOutcome(a, b) ==
    /\ a.sessionMap = b.sessionMap
    /\ a.sessions = b.sessions
    /\ a.micro = b.micro
    /\ a.calls = b.calls
    /\ NoFlag(a.timers) = NoFlag(b.timers)
    /\ NoFlag(a.inflight) = NoFlag(b.inflight)

\* C30: in every state a request can be made in, for every nodeInfo, the
\* request with the refresh flag and the one without it give the same
\* answer and schedule the same work; the deferred expansion that is due
\* does the same with the flag and without it: the same event, the same
\* tree (the children of the root are rebuilt either way, cached or not),
\* the same suspension; and so does every suspended expansion when the
\* cluster answers.
C30_FlagHasNoEffect ==
    [](/\ CanCall =>
          \A nodeInfo \in ExpandNodeInfos :
             LET st == Invoke(State, "expandNode", nodeInfo)
             IN SameOutcome(expandNode(st, NextId, nodeInfo, FALSE),
                            expandNode(st, NextId, nodeInfo, TRUE))
       /\ TimerDue("startExpansion") =>
          LET t == Head(timers)
              plain == startExpansion(PopTimer, t.call, t.session, t.nodeInfo, FALSE)
              forced == startExpansion(PopTimer, t.call, t.session, t.nodeInfo, TRUE)
          IN /\ SameOutcome(plain, forced)
             /\ IsPrefix(RootNodePath(State, t.session), t.nodeInfo.nodePath) =>
                   plain.sessions[t.session].built = sessions[t.session].built + 1
       /\ \A i \in 1..Len(inflight) : inflight[i].awaiting # "findNodeForContext" =>
          \A outcome \in IoOutcomes(inflight[i]) :
             SameOutcome(
                 resumeExpansion(State, i, outcome),
                 resumeExpansion([State EXCEPT !.inflight[i].isRefresh = ~@],
                                 i, outcome)))

\* The root of a session was expanded twice without the refresh flag: the
\* second expansion built the child anew instead of serving the cached one.
C30_Witness ==
    \E e, c \in CallIds :
        /\ e < c /\ Accepted(e) /\ Accepted(c)
        /\ calls[e].arg = calls[c].arg
        /\ calls[c].arg.nodePath = RootPath(calls[c].arg.sessionId)
        /\ calls[e].sid = calls[c].sid
        /\ Done(e) /\ Done(c)
        /\ calls[e].evs = calls[c].evs
        /\ sessions[calls[c].sid].built = 2

====
